---- MODULE Spec2Model ----
(***************************************************************************)
(* State-machine model of the multi-agent research pipelines:              *)
(*   - backend/drug_discovery.py : the 6-agent drug-discovery run with     *)
(*     a bounded controller loop (run_drug_discovery_pipeline);            *)
(*   - backend/gap_finder.py     : the 5-stage linear gap finder           *)
(*     (run_gap_finder_streaming) and its SSE wrapper in backend.py;       *)
(*   - backend/processors/xml_parser.py : deduplicate_papers.              *)
(*                                                                         *)
(* Texts produced by the LLM are modelled by the features the code's       *)
(* regular expressions and parsers read from them.  Scores are kept in     *)
(* hundredths (0.55 is 55).  Python dicts are functions from keys to       *)
(* values; a missing key is a key outside DOMAIN.                          *)
(***************************************************************************)
EXTENDS Integers, Sequences, FiniteSets, TLC

VARIABLES
    pipeline_type,      \* request.pipeline_type of stream_pipeline
    sse_last,           \* the last message written to the HTTP event stream
    \* ---- run_drug_discovery_pipeline ----
    max_loops,          \* the max_loops argument
    dd_pc,              \* position of the generator
    agent_idx,          \* index into DRUG_DISCOVERY_SEQUENCE (0-based)
    iteration_num,
    state,              \* the state dict
    user_input,         \* input built for the running stage
    full_output,        \* text streamed by the running stage
    controller_runs,    \* history: completed executions of the controller stage
    first_input,        \* history: the first input built for each stage
    loop_to,            \* history: target of a loop transition not yet re-run
    dd_events,          \* history: the events yielded by run_drug_discovery_pipeline,
                        \* the output events of the stages left out
    \* ---- run_gap_finder_streaming / run_research_gap_pipeline ----
    GAP_FINDER_AVAILABLE,
    gf_pc,              \* position of the generator
    node_idx,           \* index of the running node in RESEARCH_GAP_SEQUENCE (1-based)
    current_state,      \* the GapFinderState dict
    events,             \* events yielded by run_gap_finder_streaming
    failures,           \* history: stages whose LLM/search/fetch/aggregation call raised
    full_response,      \* history: the response llm.ainvoke returned to the running node
    \* ---- deduplicate_papers ----
    dp_pc,              \* "idle", "loop", "returned" or "raised"
    papers,             \* the argument
    dp_i,               \* loop position (papers consumed so far)
    seen_pmids,
    seen_titles,
    unique_papers,
    kept,               \* history: positions of the papers kept
    \* ---- generate_statistics_summary ----
    ag_pc,              \* "idle", "call" or "returned"
    ag_papers,          \* the argument
    summary,            \* the returned statistics
    \* ---- repair_json_response ----
    rj_pc,              \* "idle", "call" or "returned"
    raw_response,       \* the argument
    rj_result,          \* the returned value
    \* ---- one stage execution of run_drug_discovery_pipeline, chunk by chunk ----
    st_pc,              \* "idle", "stream", "complete", "done" or "raised"
    llm_chunks,         \* the contents of the chunks llm.astream will deliver
    st_i,               \* chunks delivered so far
    st_full_output,     \* full_output
    st_events,          \* the events yielded by the stage execution so far
    st_hypothesis,      \* state["hypothesis"]
    \* ---- the search and fetch of data_fetcher_node, call by call ----
    fb_pc,              \* "idle", "start", "search", "search_sleep", "pmids", "fetch",
                        \* "fetch_sleep", "parse" or "returned"
    n_queries,          \* len(queries)
    fb_i,               \* the loop variable of the running batched operation
    all_pmids,          \* all_pmids of search_multiple_queries
    searched,           \* history: how the search of each query so far ended
    pmid_list,          \* pmids of data_fetcher_node
    xml_parts,          \* xml_parts of fetch_in_batches
    fb_calls,           \* history: the external calls and the sleeps, in order
    fb_result,          \* the dict data_fetcher_node returns
    \* ---- sample_abstracts ----
    sa_pc,              \* "idle", "call" or "returned"
    sa_papers,          \* the argument papers
    sa_n,               \* the argument n
    sa_result           \* the returned list, as positions in papers

ddVars == <<max_loops, dd_pc, agent_idx, iteration_num, state, user_input,
            full_output, controller_runs, first_input, loop_to, dd_events>>
gfVars == <<GAP_FINDER_AVAILABLE, gf_pc, node_idx, current_state, events, failures,
            full_response>>
dpVars == <<dp_pc, papers, dp_i, seen_pmids, seen_titles, unique_papers, kept>>
agVars == <<ag_pc, ag_papers, summary>>
rjVars == <<rj_pc, raw_response, rj_result>>
stVars == <<st_pc, llm_chunks, st_i, st_full_output, st_events, st_hypothesis>>
fbVars == <<fb_pc, n_queries, fb_i, all_pmids, searched, pmid_list, xml_parts, fb_calls,
            fb_result>>
saVars == <<sa_pc, sa_papers, sa_n, sa_result>>
vars == <<pipeline_type, sse_last, ddVars, gfVars, dpVars, agVars, rjVars, stVars, fbVars,
         saVars>>

\* ------------------------------------------------------------------------
\* Bounds of the model
\* ------------------------------------------------------------------------
MaxLoopsBound == 2      \* max_loops ranges over 0..MaxLoopsBound
MaxPapers == 3          \* longest paper list handed to deduplicate_papers
MaxCorpus == 3          \* longest corpus handed to generate_statistics_summary
MaxChunks == 3          \* most chunks of one LLM stream
MaxQueries == 2         \* most queries handed to search_multiple_queries
MaxTotal == 2           \* stands for MAX_PAPERS_TOTAL (500)
FetchBatchSize == 1     \* stands for batch_size (50)
MaxSample == 2          \* the n of sample_abstracts ranges over 0..MaxSample

\* ------------------------------------------------------------------------
\* Python values
\* ------------------------------------------------------------------------
None == "None"          \* Python None where the other values are strings
NoScore == 0 - 1        \* Python None in a score field (scores are 0..100)
NoMatch == 0 - 1        \* a regular expression that does not match

Last(s) == s[Len(s)]
Range(s) == {s[i] : i \in 1..Len(s)}

\* ========================================================================
\* drug_discovery.py
\* ========================================================================
DRUG_DISCOVERY_SEQUENCE ==
    <<"target_hypothesis", "literature_evidence", "druggability",
      "novelty", "preclinical_design", "controller">>

\* an index() that always answers with the first stage
SeqIndex_First(a) == 0

\* list.index: the 0-based position of a stage
SeqIndex(a) == CHOOSE i \in 0..(Len(DRUG_DISCOVERY_SEQUENCE) - 1) :
                   DRUG_DISCOVERY_SEQUENCE[i + 1] = a

\* A text of the LLM, by what the parsers read from it:
\*   direct  - the number after "<KEY>:" matched by [0-1]\.?\d*   (hundredths)
\*   overall - the number after "Overall:" within 200 characters of the key
\*   near    - the first \d+\.\d+ within 50 characters of the key
\*   decision- the words that follow the "DECISION:" markers of the text, in
\*             order (<<>>: no marker).  "GO", "NO_GO", "NO-GO" and "LOOP"
\*             stand for a word that begins with these letters in any case,
\*             after optional white space; any other word ("MAYBE") stands
\*             for what the pattern (GO|NO_GO|NO-GO|LOOP) does not match,
\*             such as "NO GO" or "**LOOP**"
\*   target  - the keywords contained in the word after "LOOP_TARGET:"
\*   has_target - whether "LOOP_TARGET:\s*(\w+)" matches at all
Text(direct, overall, near, decision, has_target, target) ==
    [direct |-> direct, overall |-> overall, near |-> near,
     decision |-> decision, has_target |-> has_target, target |-> target]

EmptyText == Text(NoMatch, NoMatch, NoMatch, <<>>, FALSE, {})
ScoreText(direct, overall, near) == Text(direct, overall, near, <<>>, FALSE, {})
ControllerText(decision, has_target, target) ==
    Text(NoMatch, NoMatch, NoMatch, decision, has_target, target)

\* The texts the LLM may stream for each stage.
TextsFor(agent_id) ==
    CASE agent_id = "target_hypothesis" ->
            {ScoreText(NoMatch, NoMatch, 40)}
      [] agent_id = "literature_evidence" ->
            {ScoreText(30, NoMatch, 30), EmptyText}
      [] agent_id = "druggability" ->
            {ScoreText(30, 90, 30), ScoreText(NoMatch, 80, 45), ScoreText(150, NoMatch, 150)}
      [] agent_id = "novelty" ->
            {ScoreText(NoMatch, NoMatch, 60), ScoreText(70, NoMatch, 70)}
      [] agent_id = "preclinical_design" ->
            {ScoreText(70, NoMatch, 70), ScoreText(NoMatch, NoMatch, 250)}
      [] OTHER ->
            {ControllerText(<<>>, FALSE, {}),
             ControllerText(<<"GO">>, FALSE, {}),
             ControllerText(<<"NO_GO">>, TRUE, {"hypothesis"}),
             ControllerText(<<"NO-GO">>, FALSE, {}),
             ControllerText(<<"GO", "LOOP">>, FALSE, {}),
             ControllerText(<<"MAYBE">>, FALSE, {}),
             ControllerText(<<"MAYBE", "LOOP">>, TRUE, {"literature"}),
             ControllerText(<<"LOOP">>, FALSE, {}),
             ControllerText(<<"LOOP">>, TRUE, {}),
             ControllerText(<<"LOOP">>, TRUE, {"target", "hypothesis"}),
             ControllerText(<<"LOOP">>, TRUE, {"literature", "evidence"}),
             ControllerText(<<"LOOP">>, TRUE, {"evidence", "target"}),
             ControllerText(<<"LOOP">>, TRUE, {"preclinical", "design"}),
             ControllerText(<<"LOOP">>, TRUE, {"feasibility"}),
             ControllerText(<<"LOOP">>, TRUE, {"druggability"}),
             ControllerText(<<"LOOP">>, TRUE, {"novelty"})}

Min(a, b) == IF a < b THEN a ELSE b
Max(a, b) == IF a > b THEN a ELSE b

\* Clamp that returns the value as parsed
Clamp_Unbounded(val) == val

\* min(1.0, max(0.0, val))
Clamp(val) == Min(100, Max(0, val))

\* parse_score without the default: no score when no strategy extracts one
parse_score_NoDefault(text) ==
    IF text.direct # NoMatch THEN Clamp(text.direct)
    ELSE IF text.overall # NoMatch THEN Clamp(text.overall)
    ELSE IF text.near # NoMatch /\ text.near <= 100 THEN text.near
    ELSE NoScore

\* parse_score that looks for the nested "Overall:" value first
parse_score_OverallFirst(text) ==
    IF text.overall # NoMatch THEN Clamp(text.overall)
    ELSE IF text.direct # NoMatch THEN Clamp(text.direct)
    ELSE IF text.near # NoMatch /\ text.near <= 100 THEN text.near
    ELSE 55

\* parse_score: direct label, then nested "Overall:", then the first decimal
\* near the key (accepted only when <= 1.0), else 0.55.
parse_score(text) ==
    IF text.direct # NoMatch THEN Clamp(text.direct)
    ELSE IF text.overall # NoMatch THEN Clamp(text.overall)
    ELSE IF text.near # NoMatch /\ text.near <= 100 THEN text.near
    ELSE 55

\* FirstMatch that takes the last match of the pattern
FirstMatch_Last(words) ==
    LET hits == {i \in 1..Len(words) : words[i] \in {"GO", "NO_GO", "NO-GO", "LOOP"}}
    IN IF hits = {} THEN "none"
       ELSE words[CHOOSE i \in hits : \A j \in hits : i >= j]

\* re.search(r'DECISION:\s*(GO|NO_GO|NO-GO|LOOP)', text_upper): group 1 of the
\* leftmost match, "none" when the pattern does not match (line 605)
FirstMatch(words) ==
    LET hits == {i \in 1..Len(words) : words[i] \in {"GO", "NO_GO", "NO-GO", "LOOP"}}
    IN IF hits = {} THEN "none"
       ELSE words[CHOOSE i \in hits : \A j \in hits : i <= j]

\* parse_controller_decision: the decision (lines 604-613)
ParsedDecision(text) ==
    IF FirstMatch(text.decision) = "none" THEN "GO"
    ELSE IF FirstMatch(text.decision) = "LOOP" THEN "LOOP"
    ELSE IF FirstMatch(text.decision) \in {"NO_GO", "NO-GO"} THEN "NO_GO"
    ELSE "GO"

\* ParsedLoopTarget that looks for evidence/literature first
ParsedLoopTarget_EvidenceFirst(text) ==
    IF ParsedDecision(text) # "LOOP" THEN None
    ELSE IF ~text.has_target THEN "target_hypothesis"
    ELSE IF text.target \cap {"evidence", "literature"} # {} THEN "literature_evidence"
    ELSE IF text.target \cap {"hypothesis", "target"} # {} THEN "target_hypothesis"
    ELSE IF text.target \cap {"preclinical", "design", "feasibility"} # {} THEN "preclinical_design"
    ELSE "target_hypothesis"

\* parse_controller_decision: the loop target, by keyword priority
ParsedLoopTarget(text) ==
    IF ParsedDecision(text) # "LOOP" THEN None
    ELSE IF ~text.has_target THEN "target_hypothesis"
    ELSE IF text.target \cap {"hypothesis", "target"} # {} THEN "target_hypothesis"
    ELSE IF text.target \cap {"evidence", "literature"} # {} THEN "literature_evidence"
    ELSE IF text.target \cap {"preclinical", "design", "feasibility"} # {} THEN "preclinical_design"
    ELSE IF "druggability" \in text.target THEN "target_hypothesis"
    ELSE IF "novelty" \in text.target THEN "target_hypothesis"
    ELSE "target_hypothesis"

parse_controller_decision(text) ==
    [decision |-> ParsedDecision(text), loop_target |-> ParsedLoopTarget(text)]

\* state.get("feedback") and state["loops_used"] > 0
WantsRefinement(st) == st.feedback # "" /\ st.loops_used > 0

\* "x if x is not None else 0.5"
OrHalf(score) == IF score = NoScore THEN 50 ELSE score

\* build_drug_discovery_input: the parts of the state the input quotes and
\* whether it carries a "[REFINEMENT REQUEST" note.
build_drug_discovery_input(agent_id, st) ==
    CASE agent_id = "target_hypothesis" ->
            [agent |-> agent_id, hypothesis |-> EmptyText, context |-> <<>>,
             note |-> WantsRefinement(st)]
      [] agent_id = "literature_evidence" ->
            [agent |-> agent_id, hypothesis |-> st.hypothesis, context |-> <<>>,
             note |-> FALSE]
      [] agent_id = "druggability" ->
            [agent |-> agent_id, hypothesis |-> st.hypothesis, context |-> <<>>,
             note |-> FALSE]
      [] agent_id = "novelty" ->
            [agent |-> agent_id, hypothesis |-> st.hypothesis,
             context |-> <<OrHalf(st.evidence_score), OrHalf(st.druggability_score)>>,
             note |-> FALSE]
      [] agent_id = "preclinical_design" ->
            [agent |-> agent_id, hypothesis |-> st.hypothesis,
             context |-> <<OrHalf(st.evidence_score), OrHalf(st.druggability_score),
                           OrHalf(st.novelty_score)>>,
             note |-> WantsRefinement(st)]
      [] OTHER ->
            [agent |-> agent_id, hypothesis |-> EmptyText, context |-> <<>>,
             note |-> FALSE]

\* update_drug_discovery_state that clears the scores when the hypothesis
\* is rewritten
update_drug_discovery_state_Clearing(agent_id, output, st) ==
    CASE agent_id = "target_hypothesis" ->
            [st EXCEPT !.hypothesis = output, !.evidence_score = NoScore,
                       !.druggability_score = NoScore, !.novelty_score = NoScore,
                       !.feasibility_score = NoScore]
      [] agent_id = "literature_evidence" ->
            [st EXCEPT !.evidence = output, !.evidence_score = parse_score(output)]
      [] agent_id = "druggability" ->
            [st EXCEPT !.druggability = output, !.druggability_score = parse_score(output)]
      [] agent_id = "novelty" ->
            [st EXCEPT !.novelty = output, !.novelty_score = parse_score(output)]
      [] agent_id = "preclinical_design" ->
            [st EXCEPT !.preclinical = output, !.feasibility_score = parse_score(output)]
      [] OTHER -> st

\* update_drug_discovery_state
update_drug_discovery_state(agent_id, output, st) ==
    CASE agent_id = "target_hypothesis" ->
            [st EXCEPT !.hypothesis = output]
      [] agent_id = "literature_evidence" ->
            [st EXCEPT !.evidence = output, !.evidence_score = parse_score(output)]
      [] agent_id = "druggability" ->
            [st EXCEPT !.druggability = output, !.druggability_score = parse_score(output)]
      [] agent_id = "novelty" ->
            [st EXCEPT !.novelty = output, !.novelty_score = parse_score(output)]
      [] agent_id = "preclinical_design" ->
            [st EXCEPT !.preclinical = output, !.feasibility_score = parse_score(output)]
      [] OTHER -> st

\* Quadruples of scores (hundredths, in the order ev, dr, nv, fe) of the
\* model's score range whose left-to-right IEEE-754 double sum is smaller than
\* their exact sum of 2.00: 0.3 + 0.3 + 0.7 + 0.7 evaluates to
\* 1.9999999999999998.  Every other quadruple of the range sums exactly or
\* lies at least 0.01 away from 2.00.
DoubleSumRoundsBelow == {<<30, 30, 70, 70>>}

\* avg_score >= 0.50, with avg_score = (ev + dr + nv + fe) / 4 in doubles
AvgAtLeastHalf(ev, dr, nv, fe) ==
    IF ev + dr + nv + fe = 200
    THEN <<ev, dr, nv, fe>> \notin DoubleSumRoundsBelow
    ELSE ev + dr + nv + fe > 200

\* The decision computed when a stated LOOP finds the budget exhausted
ForcedDecision(st) ==
    IF AvgAtLeastHalf(OrHalf(st.evidence_score), OrHalf(st.druggability_score),
                      OrHalf(st.novelty_score), OrHalf(st.feasibility_score))
    THEN "GO" ELSE "NO_GO"

\* LoopAdmitted with the budget test off by one
LoopAdmitted_OffByOne(decision, loop_target, remaining) ==
    decision = "LOOP" /\ loop_target # None /\ remaining >= 0

\* "if decision == 'LOOP' and loop_target and remaining > 0"
LoopAdmitted(decision, loop_target, remaining) ==
    decision = "LOOP" /\ loop_target # None /\ remaining > 0

\* BudgetExhausted that forces a decision whatever the controller stated
BudgetExhausted_AnyDecision(decision, remaining) == remaining <= 0

\* BudgetExhausted that never forces a decision
BudgetExhausted_Never(decision, remaining) == FALSE

\* "if decision == 'LOOP' and remaining <= 0"
BudgetExhausted(decision, remaining) ==
    decision = "LOOP" /\ remaining <= 0

\* CountLoop that counts a loop twice
CountLoop_Twice(st) == [st EXCEPT !.loops_used = @ + 2]

\* state["loops_used"] += 1 (line 817)
CountLoop(st) == [st EXCEPT !.loops_used = @ + 1]

\* SSE messages of the drug-discovery run
Msg(type, agent, phase, decision) ==
    [type |-> type, agent |-> agent, phase |-> phase, decision |-> decision]
NoMsg == Msg("none", "", "", "")

InitialState ==
    [hypothesis |-> EmptyText,
     evidence |-> EmptyText, evidence_score |-> NoScore,
     druggability |-> EmptyText, druggability_score |-> NoScore,
     novelty |-> EmptyText, novelty_score |-> NoScore,
     preclinical |-> EmptyText, feasibility_score |-> NoScore,
     loops_used |-> 0, feedback |-> ""]

NoInput == [agent |-> "", hypothesis |-> EmptyText, context |-> <<>>, note |-> FALSE]

ddIdle ==
    /\ max_loops = 0
    /\ dd_pc = "idle"
    /\ agent_idx = 0
    /\ iteration_num = 1
    /\ state = InitialState
    /\ user_input = NoInput
    /\ full_output = EmptyText
    /\ controller_runs = 0
    /\ first_input = [a \in Range(DRUG_DISCOVERY_SEQUENCE) |-> NoInput]
    /\ loop_to = None
    /\ dd_events = <<>>

CurrentAgent == DRUG_DISCOVERY_SEQUENCE[agent_idx + 1]

\* an event of the run; a stage event is filed under the value the iteration
\* counter has when it is yielded
DDEvent(type, agent, phase, iteration) ==
    [type |-> type, agent |-> agent, phase |-> phase, iteration |-> iteration]

\* the events of a loop transition without its iteration_end
LoopEvents_NoEnd(loop_target, iteration) ==
    <<DDEvent("loop", loop_target, "", iteration),
      DDEvent("iteration_start", "", "", iteration)>>

\* the events of a loop transition (lines 824-826): the loop event names its
\* target ("to"), iteration is the incremented counter
LoopEvents(loop_target, iteration) ==
    <<DDEvent("loop", loop_target, "", iteration),
      DDEvent("iteration_end", "", "", iteration - 1),
      DDEvent("iteration_start", "", "", iteration)>>

\* yield iteration_start (line 740)
DD_Start ==
    /\ dd_pc = "start"
    /\ dd_pc' = "thinking"
    /\ sse_last' = Msg("iteration_start", "", "", "")
    /\ dd_events' = <<DDEvent("iteration_start", "", "", iteration_num)>>
    /\ UNCHANGED <<pipeline_type, max_loops, agent_idx, iteration_num, state,
                   user_input, full_output, controller_runs, first_input, loop_to>>
    /\ UNCHANGED <<gfVars, dpVars, agVars, rjVars, stVars, fbVars, saVars>>

\* loop head: thinking event, then the stage's input is built (lines 749-795)
DD_Thinking ==
    /\ dd_pc = "thinking"
    /\ agent_idx < Len(DRUG_DISCOVERY_SEQUENCE)
    /\ sse_last' = Msg("agent", CurrentAgent, "thinking", "")
    /\ dd_events' = Append(dd_events, DDEvent("agent", CurrentAgent, "thinking", iteration_num))
    /\ user_input' = build_drug_discovery_input(CurrentAgent, state)
    /\ first_input' = IF first_input[CurrentAgent] = NoInput
                      THEN [first_input EXCEPT
                              ![CurrentAgent] = build_drug_discovery_input(CurrentAgent, state)]
                      ELSE first_input
    /\ full_output' = EmptyText
    /\ dd_pc' = "stream"
    /\ UNCHANGED <<pipeline_type, max_loops, agent_idx, iteration_num, state,
                   controller_runs, loop_to>>
    /\ UNCHANGED <<gfVars, dpVars, agVars, rjVars, stVars, fbVars, saVars>>

\* the LLM stream runs to its end (lines 798-801)
DD_Stream ==
    /\ dd_pc = "stream"
    /\ \E text \in TextsFor(CurrentAgent) :
          /\ full_output' = text
          \* an empty stream yields no output event
          /\ sse_last' = IF text = EmptyText
                         THEN sse_last
                         ELSE Msg("agent", CurrentAgent, "output", "")
          /\ UNCHANGED dd_events
    /\ dd_pc' = "update"
    /\ UNCHANGED <<pipeline_type, max_loops, agent_idx, iteration_num, state,
                   user_input, controller_runs, first_input, loop_to>>
    /\ UNCHANGED <<gfVars, dpVars, agVars, rjVars, stVars, fbVars, saVars>>

\* llm.astream raises: nothing in the generator catches it (lines 799-801)
DD_StreamRaises ==
    /\ dd_pc = "stream"
    /\ \E chunks_before \in BOOLEAN :
          /\ sse_last' = IF chunks_before
                         THEN Msg("agent", CurrentAgent, "output", "")
                         ELSE sse_last
          /\ UNCHANGED dd_events
    /\ dd_pc' = "raised"
    /\ UNCHANGED <<pipeline_type, max_loops, agent_idx, iteration_num, state,
                   user_input, full_output, controller_runs, first_input, loop_to>>
    /\ UNCHANGED <<gfVars, dpVars, agVars, rjVars, stVars, fbVars, saVars>>

\* state update and complete event (lines 803-809, 846)
DD_Complete ==
    /\ dd_pc = "update"
    /\ state' = update_drug_discovery_state(CurrentAgent, full_output, state)
    /\ sse_last' = Msg("agent", CurrentAgent, "complete", "")
    /\ dd_events' = Append(dd_events, DDEvent("agent", CurrentAgent, "complete", iteration_num))
    /\ loop_to' = IF loop_to = CurrentAgent THEN None ELSE loop_to
    /\ IF CurrentAgent = "controller"
       THEN /\ dd_pc' = "route"
            /\ controller_runs' = controller_runs + 1
            /\ UNCHANGED agent_idx
       ELSE /\ dd_pc' = "thinking"
            /\ agent_idx' = agent_idx + 1
            /\ UNCHANGED controller_runs
    /\ UNCHANGED <<pipeline_type, max_loops, iteration_num, user_input,
                   full_output, first_input>>
    /\ UNCHANGED <<gfVars, dpVars, agVars, rjVars, stVars, fbVars, saVars>>

\* controller routing, loop branch (lines 812-830)
DD_Loop ==
    /\ dd_pc = "route"
    /\ LET parsed == parse_controller_decision(full_output)
           remaining == max_loops - state.loops_used
       IN /\ LoopAdmitted(parsed.decision, parsed.loop_target, remaining)
          /\ parsed.loop_target \in Range(DRUG_DISCOVERY_SEQUENCE)
          /\ state' = [CountLoop(state) EXCEPT
                            !.feedback = "Controller requested refinement"]
          /\ iteration_num' = iteration_num + 1
          /\ agent_idx' = SeqIndex(parsed.loop_target)
          /\ loop_to' = parsed.loop_target
          /\ sse_last' = Msg("iteration_start", "", "", "")
          /\ dd_events' = dd_events \o LoopEvents(parsed.loop_target, iteration_num + 1)
          /\ dd_pc' = "thinking"
    /\ UNCHANGED <<pipeline_type, max_loops, user_input, full_output,
                   controller_runs, first_input>>
    /\ UNCHANGED <<gfVars, dpVars, agVars, rjVars, stVars, fbVars, saVars>>

\* controller routing, terminal branch (lines 812-844)
DD_Finish ==
    /\ dd_pc = "route"
    /\ LET parsed == parse_controller_decision(full_output)
           remaining == max_loops - state.loops_used
           admitted == LoopAdmitted(parsed.decision, parsed.loop_target, remaining)
           decision == IF BudgetExhausted(parsed.decision, remaining)
                       THEN ForcedDecision(state)
                       ELSE parsed.decision
       IN \* an admitted loop leaves through "continue" unless index() raises
          /\ admitted => parsed.loop_target \notin Range(DRUG_DISCOVERY_SEQUENCE)
          /\ state' = IF admitted THEN CountLoop(state) ELSE state
          /\ iteration_num' = IF admitted THEN iteration_num + 1 ELSE iteration_num
          /\ sse_last' = Msg("pipeline_complete", "", "", decision)
          /\ dd_events' = dd_events \o
                <<DDEvent("iteration_end", "", "", iteration_num'),
                  DDEvent("pipeline_complete", "", "", iteration_num')>>
          /\ dd_pc' = "done"
    /\ UNCHANGED <<pipeline_type, max_loops, agent_idx, user_input, full_output,
                   controller_runs, first_input, loop_to>>
    /\ UNCHANGED <<gfVars, dpVars, agVars, rjVars, stVars, fbVars, saVars>>

DDNext ==
    \/ DD_Start
    \/ DD_Thinking
    \/ DD_Stream
    \/ DD_StreamRaises
    \/ DD_Complete
    \/ DD_Loop
    \/ DD_Finish

\* ========================================================================
\* drug_discovery.py : the stream of one stage execution, chunk by chunk
\* ========================================================================
\* The content of a chunk is a sequence of characters; empty content (""
\* or None) is <<>>.
ChunkContents == {<<>>, <<"a">>, <<"b">>, <<"a", "b">>, <<"b", "a">>}

RECURSIVE StreamsUpTo(_)
\* the streams of at most n chunks
StreamsUpTo(n) ==
    IF n = 0 THEN {<<>>}
    ELSE StreamsUpTo(n - 1)
            \cup {Append(cs, c) : cs \in {x \in StreamsUpTo(n - 1) : Len(x) = n - 1},
                                  c \in ChunkContents}

StageEvent(phase, content) == [phase |-> phase, content |-> content]

\* stream_llm that yields every chunk, whatever its content
Yielded_Always(content) == TRUE

\* stream_llm: "if chunk.content: yield chunk.content" (lines 745-747)
Yielded(content) == content # <<>>

stIdle ==
    /\ st_pc = "idle"
    /\ llm_chunks = <<>>
    /\ st_i = 0
    /\ st_full_output = <<>>
    /\ st_events = <<>>
    /\ st_hypothesis = <<>>

\* the dict data_fetcher_node returns
FetchResult(raw_papers, error) ==
    [raw_papers |-> raw_papers, paper_count |-> Len(raw_papers), error |-> error]

fbIdle ==
    /\ fb_pc = "idle"
    /\ n_queries = 0
    /\ fb_i = 0
    /\ all_pmids = {}
    /\ searched = <<>>
    /\ pmid_list = <<>>
    /\ xml_parts = <<>>
    /\ fb_calls = <<>>
    /\ fb_result = FetchResult(<<>>, None)

saIdle ==
    /\ sa_pc = "idle"
    /\ sa_papers = <<>>
    /\ sa_n = 0
    /\ sa_result = <<>>

\* the thinking event and "full_output = ''" (lines 754, 798)
ST_Thinking ==
    /\ st_pc = "thinking"
    /\ st_events' = Append(st_events, StageEvent("thinking", <<>>))
    /\ st_full_output' = <<>>
    /\ st_pc' = "stream"
    /\ UNCHANGED <<llm_chunks, st_i, st_hypothesis>>
    /\ UNCHANGED <<pipeline_type, sse_last, ddVars, gfVars, dpVars, agVars, rjVars, fbVars, saVars>>

\* one chunk of llm.astream goes through stream_llm and the loop body
\* (lines 745-747, 799-801)
ST_Chunk ==
    /\ st_pc = "stream"
    /\ st_i < Len(llm_chunks)
    /\ st_i' = st_i + 1
    /\ IF Yielded(llm_chunks[st_i + 1])
       THEN /\ st_full_output' = st_full_output \o llm_chunks[st_i + 1]
            /\ st_events' = Append(st_events, StageEvent("output", llm_chunks[st_i + 1]))
       ELSE UNCHANGED <<st_full_output, st_events>>
    /\ UNCHANGED <<st_pc, llm_chunks, st_hypothesis>>
    /\ UNCHANGED <<pipeline_type, sse_last, ddVars, gfVars, dpVars, agVars, rjVars, fbVars, saVars>>

\* llm.astream raises instead of delivering its next chunk
ST_Raises ==
    /\ st_pc = "stream"
    /\ st_i < Len(llm_chunks)
    /\ st_pc' = "raised"
    /\ UNCHANGED <<llm_chunks, st_i, st_full_output, st_events, st_hypothesis>>
    /\ UNCHANGED <<pipeline_type, sse_last, ddVars, gfVars, dpVars, agVars, rjVars, fbVars, saVars>>

\* the stream is exhausted: update_drug_discovery_state("target_hypothesis",
\* full_output, state) and the complete event (lines 804-808)
ST_Complete ==
    /\ st_pc = "stream"
    /\ st_i = Len(llm_chunks)
    /\ st_hypothesis' = st_full_output
    /\ st_events' = Append(st_events, StageEvent("complete", st_full_output))
    /\ st_pc' = "done"
    /\ UNCHANGED <<llm_chunks, st_i, st_full_output>>
    /\ UNCHANGED <<pipeline_type, sse_last, ddVars, gfVars, dpVars, agVars, rjVars, fbVars, saVars>>

StreamNext ==
    \/ ST_Thinking
    \/ ST_Chunk
    \/ ST_Raises
    \/ ST_Complete

\* ========================================================================
\* processors/xml_parser.py : deduplicate_papers
\* ========================================================================
\* A title is a sequence of characters; a record without ArticleTitle has
\* title None, written NoTitle (a tuple no character string equals).
NoTitle == <<None>>

LowerChar(c) == CASE c = "A" -> "a" [] c = "B" -> "b" [] OTHER -> c

\* str.lower
Lower(s) == [i \in 1..Len(s) |-> LowerChar(s[i])]

RECURSIVE LStrip(_)
LStrip(s) == IF s # <<>> /\ Head(s) = " " THEN LStrip(Tail(s)) ELSE s

RECURSIVE RStrip(_)
RStrip(s) == IF s # <<>> /\ s[Len(s)] = " " THEN RStrip(SubSeq(s, 1, Len(s) - 1)) ELSE s

\* str.strip
Strip(s) == RStrip(LStrip(s))

\* paper.get("title", "").lower().strip(); the key is always present, so a
\* None title reaches .lower()
NormTitle(title) == Strip(Lower(title))

\* ---- processors/mesh_mapper.py ----
\* the entries of MESH_TO_PICO the model's articles use: term -> <<dimension, category>>
MESH_TO_PICO ==
    [term \in {"Adult", "Aged", "Aged, 80 and over", "Adolescent", "Child", "Infant",
               "Methadone", "Counseling", "Psychotherapy", "Telemedicine", "Exercise",
               "Quality of Life", "Randomized Controlled Trial", "Review"} |->
        CASE term = "Adult" -> <<"population", "adults">>
          [] term = "Aged" -> <<"population", "elderly">>
          [] term = "Aged, 80 and over" -> <<"population", "elderly">>
          [] term = "Adolescent" -> <<"population", "adolescents">>
          [] term = "Child" -> <<"population", "children">>
          [] term = "Infant" -> <<"population", "infants">>
          [] term = "Methadone" -> <<"intervention", "methadone">>
          [] term = "Counseling" -> <<"intervention", "counseling">>
          [] term = "Psychotherapy" -> <<"intervention", "psychotherapy">>
          [] term = "Telemedicine" -> <<"intervention", "telehealth">>
          [] term = "Exercise" -> <<"intervention", "exercise">>
          [] term = "Quality of Life" -> <<"outcome", "quality_of_life">>
          [] term = "Randomized Controlled Trial" -> <<"study_type", "rct">>
          [] OTHER -> <<"study_type", "review">>]

Dimensions == {"population", "intervention", "setting", "outcome", "study_type"}

\* AddCategory without the "not in" test
AddCategory_Repeating(categories, category) == Append(categories, category)

\* "if category not in result[dimension]: result[dimension].append(category)"
AddCategory(categories, category) ==
    IF category \in Range(categories) THEN categories ELSE Append(categories, category)

RECURSIVE MapTermsInto(_, _)
\* the loop of map_mesh_terms over the remaining terms
MapTermsInto(result, terms) ==
    IF terms = <<>> THEN result
    ELSE IF Head(terms) \in DOMAIN MESH_TO_PICO
    THEN LET dimension == MESH_TO_PICO[Head(terms)][1]
             category == MESH_TO_PICO[Head(terms)][2]
         IN MapTermsInto([result EXCEPT ![dimension] = AddCategory(@, category)],
                         Tail(terms))
    ELSE MapTermsInto(result, Tail(terms))

\* map_mesh_terms: dimension -> list of matched categories
map_mesh_terms(mesh_terms) == MapTermsInto([d \in Dimensions |-> <<>>], mesh_terms)

\* ---- processors/xml_parser.py : _parse_article ----
\* year 0 stands for a record without a year (the code only tests "if year")
NoYear == 0

\* A PubmedArticle element, by what _parse_article reads from it
Article(pmid, title, descriptors, publication_types, year, abstract) ==
    [pmid |-> pmid, title |-> title, descriptors |-> descriptors,
     publication_types |-> publication_types, year |-> year, abstract |-> abstract,
     doi |-> None]

\* the article with an ArticleId of IdType doi
WithDoi(article, doi) == [article EXCEPT !.doi = doi]

\* _parse_article with pico mapped from the descriptor names alone
_parse_article_DescriptorsOnly(article) ==
    LET mesh_terms == article.descriptors
                        \o SelectSeq(article.publication_types,
                                     LAMBDA t : t \in DOMAIN MESH_TO_PICO)
    IN [pmid |-> article.pmid, title |-> article.title,
        abstract |-> article.abstract, year |-> article.year,
        mesh_terms |-> mesh_terms,
        publication_types |-> article.publication_types,
        doi |-> article.doi, citations |-> None,
        pico |-> map_mesh_terms(article.descriptors)]

\* _parse_article: descriptor names, then the publication types found in
\* MESH_TO_PICO, make mesh_terms; pico is their category mapping.  The key
\* citations is absent (None) until the enrichment sets it.
_parse_article(article) ==
    LET mesh_terms == article.descriptors
                        \o SelectSeq(article.publication_types,
                                     LAMBDA t : t \in DOMAIN MESH_TO_PICO)
    IN [pmid |-> article.pmid, title |-> article.title,
        abstract |-> article.abstract, year |-> article.year,
        mesh_terms |-> mesh_terms,
        publication_types |-> article.publication_types,
        doi |-> article.doi, citations |-> None,
        pico |-> map_mesh_terms(mesh_terms)]

\* parse_pubmed_xml: one record per PubmedArticle element, in document order
parse_pubmed_xml(articles) == [i \in 1..Len(articles) |-> _parse_article(articles[i])]

\* a record that carries only an identifier and a title
Paper(pmid, title) == _parse_article(Article(pmid, title, <<>>, <<>>, NoYear, None))

\* the accumulator of the loop of deduplicate_papers
DedupStart ==
    [raised |-> FALSE, seen_pmids |-> {}, seen_titles |-> {},
     unique_papers |-> <<>>, kept |-> <<>>]

\* "if pmid and pmid in seen_pmids" / "if title and title in seen_titles"
IsDuplicate(pmid, title, acc) ==
    \/ pmid # None /\ pmid \in acc.seen_pmids
    \/ title # <<>> /\ title \in acc.seen_titles

\* DedupIter that forgets a key once it has dropped a paper for it
DedupIter_Forgetful(paper, i, acc) ==
    IF paper.title = NoTitle
    THEN [acc EXCEPT !.raised = TRUE]
    ELSE LET pmid == paper.pmid
             title == NormTitle(paper.title)
         IN IF IsDuplicate(pmid, title, acc)
            THEN [acc EXCEPT !.seen_pmids = @ \ {pmid}, !.seen_titles = @ \ {title}]
            ELSE [raised |-> FALSE,
                  seen_pmids |-> IF pmid # None THEN acc.seen_pmids \cup {pmid}
                                 ELSE acc.seen_pmids,
                  seen_titles |-> IF title # <<>> THEN acc.seen_titles \cup {title}
                                  ELSE acc.seen_titles,
                  unique_papers |-> Append(acc.unique_papers, paper),
                  kept |-> Append(acc.kept, i)]

\* one iteration of the loop over papers[i]
DedupIter(paper, i, acc) ==
    IF paper.title = NoTitle
    THEN [acc EXCEPT !.raised = TRUE]           \* None.lower(): AttributeError
    ELSE LET pmid == paper.pmid
             title == NormTitle(paper.title)
         IN IF IsDuplicate(pmid, title, acc)
            THEN acc
            ELSE [raised |-> FALSE,
                  seen_pmids |-> IF pmid # None THEN acc.seen_pmids \cup {pmid}
                                 ELSE acc.seen_pmids,
                  seen_titles |-> IF title # <<>> THEN acc.seen_titles \cup {title}
                                  ELSE acc.seen_titles,
                  unique_papers |-> Append(acc.unique_papers, paper),
                  kept |-> Append(acc.kept, i)]

RECURSIVE DedupFrom(_, _, _)
DedupFrom(ps, i, acc) ==
    IF acc.raised \/ i > Len(ps) THEN acc
    ELSE DedupFrom(ps, i + 1, DedupIter(ps[i], i, acc))

\* deduplicate_papers(papers): [raised, unique_papers, ...]
deduplicate_papers(ps) == DedupFrom(ps, 1, DedupStart)

Pmids == {None, "1", "2"}
Titles == {NoTitle, <<>>, <<"a">>, <<"A", " ">>, <<"b">>}
PaperDomain == {Paper(p, t) : p \in Pmids, t \in Titles}

SeqsUpTo(S, n) == UNION {[1..k -> S] : k \in 0..n}

dpIdle ==
    /\ dp_pc = "idle"
    /\ papers = <<>>
    /\ dp_i = 0
    /\ seen_pmids = {}
    /\ seen_titles = {}
    /\ unique_papers = <<>>
    /\ kept = <<>>

DpAcc == [raised |-> FALSE, seen_pmids |-> seen_pmids, seen_titles |-> seen_titles,
          unique_papers |-> unique_papers, kept |-> kept]

\* one pass of "for paper in papers" (lines 221-238)
DP_Iterate ==
    /\ dp_pc = "loop"
    /\ dp_i < Len(papers)
    /\ LET acc == DedupIter(papers[dp_i + 1], dp_i + 1, DpAcc)
       IN /\ dp_pc' = IF acc.raised THEN "raised" ELSE "loop"
          /\ seen_pmids' = acc.seen_pmids
          /\ seen_titles' = acc.seen_titles
          /\ unique_papers' = acc.unique_papers
          /\ kept' = acc.kept
    /\ dp_i' = dp_i + 1
    /\ UNCHANGED <<papers, pipeline_type, sse_last, ddVars, gfVars,
                   agVars, rjVars, stVars, fbVars, saVars>>

\* "return unique_papers" (line 240)
DP_Return ==
    /\ dp_pc = "loop"
    /\ dp_i = Len(papers)
    /\ dp_pc' = "returned"
    /\ UNCHANGED <<papers, dp_i, seen_pmids, seen_titles, unique_papers, kept,
                   pipeline_type, sse_last, ddVars, gfVars,
                   agVars, rjVars, stVars, fbVars, saVars>>

DedupNext == DP_Iterate \/ DP_Return

\* ========================================================================
\* processors/aggregator.py
\* ========================================================================
SPARSE_THRESHOLD == 3       \* threshold=3 passed to find_sparse_cells

Front(s) == SubSeq(s, 1, Len(s) - 1)

RECURSIVE AppendNew(_, _)
\* append to "active" the categories of cats not yet in it, in order
AppendNew(active, cats) ==
    IF cats = <<>> THEN active
    ELSE AppendNew(IF Head(cats) \in Range(active) THEN active
                   ELSE Append(active, Head(cats)), Tail(cats))

\* ActiveCategories taken from the static taxonomy instead of the corpus
ActiveCategories_Static(ps, dim) ==
    CASE dim = "population" -> <<"adults", "elderly">>
      [] dim = "intervention" -> <<"counseling", "methadone">>
      [] OTHER -> <<>>

RECURSIVE ActiveCategories(_, _)
\* list(Counter.keys()): categories in the order of their first appearance
ActiveCategories(ps, dim) ==
    IF ps = <<>> THEN <<>>
    ELSE AppendNew(ActiveCategories(Front(ps), dim), Last(ps).pico[dim])

\* aggregate_papers: the count of one category in one dimension, one for
\* every occurrence in a paper's list
CategoryCount(ps, dim, cat) ==
    Cardinality({ik \in UNION {{<<i, k>> : k \in 1..Len(ps[i].pico[dim])} : i \in 1..Len(ps)} :
                    ps[ik[1]].pico[dim][ik[2]] = cat})

\* aggregate_papers: year_counts, as the years counted and the count of each
YearCount(ps, year) == Cardinality({i \in 1..Len(ps) : ps[i].year = year})
Years(ps) == {ps[i].year : i \in 1..Len(ps)} \ {NoYear}

\* build_cooccurrence_matrix: matrix[c1][c2] for populations x interventions
Cooccurrence(ps, c1, c2) ==
    Cardinality({i \in 1..Len(ps) :
                    c1 \in Range(ps[i].pico.population)
                        /\ c2 \in Range(ps[i].pico.intervention)})

\* find_sparse_cells before the sort: the cells in nested-loop order
AllCells(ps) ==
    LET a1 == ActiveCategories(ps, "population")
        a2 == ActiveCategories(ps, "intervention")
    IN [k \in 1..(Len(a1) * Len(a2)) |->
          LET c1 == a1[((k - 1) \div Len(a2)) + 1]
              c2 == a2[((k - 1) % Len(a2)) + 1]
          IN [dimension1 |-> c1, dimension2 |-> c2, count |-> Cooccurrence(ps, c1, c2)]]

CellsWithCount(cells, c) == SelectSeq(cells, LAMBDA cell : cell.count = c)

\* SortedSparse without the sort
SortedSparse_Unsorted(cells, c) ==
    SelectSeq(cells, LAMBDA cell : c <= cell.count /\ cell.count < SPARSE_THRESHOLD)

RECURSIVE SortedSparse(_, _)
\* the cells below the threshold, stably sorted by count ascending
SortedSparse(cells, c) ==
    IF c >= SPARSE_THRESHOLD THEN <<>>
    ELSE CellsWithCount(cells, c) \o SortedSparse(cells, c + 1)

find_sparse_cells(ps) == SortedSparse(AllCells(ps), 0)

\* round(n / d, 1) of a ratio given in tenths (n = 10 * numerator): the
\* nearest integer to n / d.  A tie needs d to be a multiple of 16 when n is
\* count * 1000, which no corpus of the model reaches.
RoundRatio(n, d) == (2 * n + d) \div (2 * d)

\* "pct = (count / total * 100) if total > 0 else 0", rounded, in tenths
Percentage(count, total) == IF total > 0 THEN RoundRatio(count * 1000, total) ELSE 0

\* compute_distribution_percentages: the entries of one dimension
Distribution(ps, dim) ==
    [cat \in Range(ActiveCategories(ps, dim)) |->
        [count |-> CategoryCount(ps, dim, cat),
         percentage |-> Percentage(CategoryCount(ps, dim, cat), Len(ps))]]

RECURSIVE InsertByPercentage(_, _)
InsertByPercentage(s, x) ==
    IF s = <<>> THEN <<x>>
    ELSE IF Last(s).percentage <= x.percentage THEN Append(s, x)
    ELSE Append(InsertByPercentage(Front(s), x), Last(s))

RECURSIVE SortByPercentage(_)
\* list.sort(key=percentage): stable, ascending
SortByPercentage(s) ==
    IF s = <<>> THEN <<>> ELSE InsertByPercentage(SortByPercentage(Front(s)), Last(s))

\* identify_understudied: categories below threshold_pct percent of the papers
identify_understudied(ps, dim, threshold_pct) ==
    LET active == ActiveCategories(ps, dim)
        entries == [k \in 1..Len(active) |->
                      [category |-> active[k],
                       count |-> CategoryCount(ps, dim, active[k]),
                       percentage |-> Percentage(CategoryCount(ps, dim, active[k]), Len(ps))]]
        below(e) == IF Len(ps) > 0 THEN e.count * 100 < threshold_pct * Len(ps)
                    ELSE 0 < threshold_pct
    IN SortByPercentage(SelectSeq(entries, below))

\* sorted(year_counts.keys())
SortedYears(ps) ==
    LET ys == Years(ps)
    IN CHOOSE s \in [1..Cardinality(ys) -> ys] :
          \A i, j \in 1..Cardinality(ys) : i < j => s[i] < s[j]

\* calculate_temporal_trends: the trend and the number of yearly changes
calculate_temporal_trends(ps) ==
    LET sorted_years == SortedYears(ps)
        n == Len(sorted_years)
        prev_count(i) == YearCount(ps, sorted_years[i - 1])
        curr_count(i) == YearCount(ps, sorted_years[i])
        \* round(pct_change, 1), in tenths
        pct_change(i) ==
            IF prev_count(i) > 0
            THEN RoundRatio((curr_count(i) - prev_count(i)) * 1000, prev_count(i))
            ELSE IF curr_count(i) > 0 THEN 1000 ELSE 0
        \* changes[-3:]
        first_recent == IF n - 1 >= 3 THEN n - 2 ELSE 2
        sum_recent[k \in 1..n] ==
            IF k < first_recent THEN 0 ELSE sum_recent[k - 1] + pct_change(k)
        n_recent == n - first_recent + 1
    IN IF n < 2 THEN [trend |-> "insufficient_data", changes |-> 0]
       ELSE [trend |-> IF sum_recent[n] > 150 * n_recent THEN "growing"
                       ELSE IF sum_recent[n] < (0 - 150) * n_recent THEN "declining"
                       ELSE "stable",
             changes |-> n - 1]

\* "min(...) if agg['year_counts'] else None", NoYear standing for None
year_range(ps) ==
    IF Years(ps) = {} THEN [min |-> NoYear, max |-> NoYear]
    ELSE [min |-> CHOOSE y \in Years(ps) : \A z \in Years(ps) : y <= z,
          max |-> CHOOSE y \in Years(ps) : \A z \in Years(ps) : y >= z]

\* sample_abstracts(papers, n=15): the papers with an abstract; the corpora of
\* the model hold fewer than 15 papers, so the random sampling is never entered
sample_abstracts(ps) == SelectSeq(ps, LAMBDA p : p.abstract \notin {None, ""})

\* generate_statistics_summary
generate_statistics_summary(ps) ==
    [total_papers |-> Len(ps),
     year_range |-> year_range(ps),
     distributions |-> [dim \in Dimensions |-> Distribution(ps, dim)],
     temporal_trends |-> calculate_temporal_trends(ps),
     sparse_combinations |-> SubSeq(find_sparse_cells(ps), 1,
                                    Min(20, Len(find_sparse_cells(ps)))),
     understudied |-> [populations |-> identify_understudied(ps, "population", 5),
                       interventions |-> identify_understudied(ps, "intervention", 5),
                       outcomes |-> identify_understudied(ps, "outcome", 10)],
     sample_abstracts |-> [k \in 1..Len(sample_abstracts(ps)) |->
                             [pmid |-> sample_abstracts(ps)[k].pmid,
                              title |-> sample_abstracts(ps)[k].title,
                              year |-> sample_abstracts(ps)[k].year,
                              study_type |-> sample_abstracts(ps)[k].pico.study_type]]]

\* the corpora handed to generate_statistics_summary
ArticleDomain ==
    {Article("1", <<"a">>, <<"Adult", "Counseling">>, <<>>, 2020, "text"),
     Article("2", <<"b">>, <<"Aged", "Aged, 80 and over", "Methadone">>,
             <<"Randomized Controlled Trial">>, 2021, "text"),
     Article("3", <<>>, <<"Adult", "Aged", "Counseling", "Humans">>,
             <<"Journal Article", "Review">>, 2020, None),
     Article(None, NoTitle, <<>>, <<>>, NoYear, ""),
     Article("5", <<"a">>, <<"Counseling">>,
             <<"Review", "Randomized Controlled Trial">>, 2021, "text"),
     Article("6", <<"b">>, <<"Child", "Quality of Life">>, <<>>, NoYear, "text")}

\* two papers on adults and counseling among one paper that spans four other
\* populations and four other interventions
WideCorpus ==
    <<Article("1", <<"a">>, <<"Adult", "Counseling">>, <<>>, 2020, "text"),
      Article("2", <<"b">>, <<"Adult", "Counseling">>, <<>>, 2021, "text"),
      Article("3", <<>>, <<"Aged", "Child", "Infant", "Adolescent",
                          "Methadone", "Psychotherapy", "Telemedicine", "Exercise">>,
              <<>>, 2021, "text")>>

Corpora ==
    {parse_pubmed_xml(articles) :
        articles \in SeqsUpTo(ArticleDomain, MaxCorpus) \cup {WideCorpus}}

\* no statistics returned yet
NoSummary == [total_papers |-> 0]

agIdle ==
    /\ ag_pc = "idle"
    /\ ag_papers = <<>>
    /\ summary = NoSummary

\* one call of generate_statistics_summary(papers) (lines 331-413)
AG_Call ==
    /\ ag_pc = "call"
    /\ summary' = generate_statistics_summary(ag_papers)
    /\ ag_pc' = "returned"
    /\ UNCHANGED <<ag_papers, pipeline_type, sse_last, ddVars, gfVars, dpVars, rjVars, stVars, fbVars, saVars>>

AggNext == AG_Call

\* ========================================================================
\* gap_finder.py : repair_json_response on the text of a response
\* ========================================================================
\* A text is a sequence of characters of a reduced alphabet:
\*   "{" "}" "[" "]" "," ":"   themselves
\*   "q"     the double quote          "'"   the single quote
\*   " "     white space               "F"   three backquotes (a code fence)
\*   "json"  the word json             "x"   a letter
\*   "1"     a digit                   "ds"  the word domain_summary
WordChars == {"json", "x", "1", "ds"}

\* str.find: the first index at which pat occurs in s, 0 when it does not
IndexOf(s, pat) ==
    LET hits == {i \in 1..(Len(s) - Len(pat) + 1) : SubSeq(s, i, i + Len(pat) - 1) = pat}
    IN IF hits = {} THEN 0 ELSE CHOOSE i \in hits : \A j \in hits : i <= j

\* the number of consecutive characters of a class at s[i], s[i+1], ...
Run(s, i, class) ==
    CHOOSE k \in 0..(Len(s) - i + 1) :
        /\ \A j \in i..(i + k - 1) : s[j] \in class
        /\ (i + k > Len(s) \/ s[i + k] \notin class)

\* Step 1: the text between the code fences, if there are any
ExtractFenced(text) ==
    LET json_str == Strip(text)
        After(i) == SubSeq(json_str, i, Len(json_str))
        UpToFence(t) == IF IndexOf(t, <<"F">>) = 0 THEN t
                        ELSE SubSeq(t, 1, IndexOf(t, <<"F">>) - 1)
    IN IF IndexOf(json_str, <<"F", "json">>) # 0
       \* json_str.split("```json")[1].split("```")[0].strip()
       THEN Strip(UpToFence(After(IndexOf(json_str, <<"F", "json">>) + 2)))
       ELSE IF IndexOf(json_str, <<"F">>) # 0
       \* json_str.split("```")[1].strip()
       THEN Strip(UpToFence(After(IndexOf(json_str, <<"F">>) + 1)))
       ELSE json_str

\* ObjectSpan that goes on with the whole text whatever braces it has
ObjectSpan_Unchecked(json_str) == [found |-> TRUE, text |-> json_str]

\* Step 2: from the first "{" to the last "}"; not found when there is no
\* "{" or no "}" after it ("start == -1 or end <= start")
ObjectSpan(json_str) ==
    LET start == IndexOf(json_str, <<"{">>)
        closes == {i \in 1..Len(json_str) : json_str[i] = "}"}
        last == IF closes = {} THEN 0 ELSE CHOOSE i \in closes : \A j \in closes : i >= j
    IN IF start = 0 \/ last < start
       THEN [found |-> FALSE, text |-> <<>>]
       ELSE [found |-> TRUE, text |-> SubSeq(json_str, start, last)]

\* json.loads.  A value is <<"s", characters>> for a string, <<"n", digits>>
\* for a number, <<"a", elements>> for an array and <<"o", <<key, value>>
\* pairs>> for an object; a parse returns [ok, value, rest of the text].
ParseFail == [ok |-> FALSE, value |-> <<>>, rest |-> <<>>]

RECURSIVE ParseValue(_)
RECURSIVE ParseMembers(_, _)
RECURSIVE ParseElements(_, _)

\* the members of an object after "{" or ",": a key is required
ParseMembers(s, acc) ==
    LET k == ParseValue(s)
    IN IF ~k.ok THEN ParseFail
       ELSE IF k.value[1] # "s" THEN ParseFail
       ELSE IF LStrip(k.rest) = <<>> THEN ParseFail
       ELSE IF Head(LStrip(k.rest)) # ":" THEN ParseFail
       ELSE LET v == ParseValue(Tail(LStrip(k.rest)))
            IN IF ~v.ok THEN ParseFail
               ELSE IF LStrip(v.rest) = <<>> THEN ParseFail
               ELSE IF Head(LStrip(v.rest)) = "}"
               THEN [ok |-> TRUE, value |-> <<"o", Append(acc, <<k.value, v.value>>)>>,
                     rest |-> Tail(LStrip(v.rest))]
               ELSE IF Head(LStrip(v.rest)) = ","
               THEN ParseMembers(Tail(LStrip(v.rest)), Append(acc, <<k.value, v.value>>))
               ELSE ParseFail

\* the elements of an array after "[" or ",": a value is required
ParseElements(s, acc) ==
    LET v == ParseValue(s)
    IN IF ~v.ok THEN ParseFail
       ELSE IF LStrip(v.rest) = <<>> THEN ParseFail
       ELSE IF Head(LStrip(v.rest)) = "]"
       THEN [ok |-> TRUE, value |-> <<"a", Append(acc, v.value)>>,
             rest |-> Tail(LStrip(v.rest))]
       ELSE IF Head(LStrip(v.rest)) = ","
       THEN ParseElements(Tail(LStrip(v.rest)), Append(acc, v.value))
       ELSE ParseFail

ParseValue(s) ==
    LET t == LStrip(s)
        close == IndexOf(Tail(t), <<"q">>) + 1      \* the closing quote of a string
        digits == Run(t, 1, {"1"})
    IN IF t = <<>> THEN ParseFail
       ELSE CASE Head(t) = "q" ->
                    IF close = 1 THEN ParseFail
                    ELSE [ok |-> TRUE, value |-> <<"s", SubSeq(t, 2, close - 1)>>,
                          rest |-> SubSeq(t, close + 1, Len(t))]
              [] Head(t) = "1" ->
                    [ok |-> TRUE, value |-> <<"n", SubSeq(t, 1, digits)>>,
                     rest |-> SubSeq(t, digits + 1, Len(t))]
              [] Head(t) = "{" ->
                    IF LStrip(Tail(t)) # <<>> /\ Head(LStrip(Tail(t))) = "}"
                    THEN [ok |-> TRUE, value |-> <<"o", <<>>>>,
                          rest |-> Tail(LStrip(Tail(t)))]
                    ELSE ParseMembers(Tail(t), <<>>)
              [] Head(t) = "[" ->
                    IF LStrip(Tail(t)) # <<>> /\ Head(LStrip(Tail(t))) = "]"
                    THEN [ok |-> TRUE, value |-> <<"a", <<>>>>,
                          rest |-> Tail(LStrip(Tail(t)))]
                    ELSE ParseElements(Tail(t), <<>>)
              [] OTHER -> ParseFail

\* json.loads(s): one value and nothing but white space after it
json_loads(s) ==
    IF ParseValue(s).ok /\ LStrip(ParseValue(s).rest) = <<>>
    THEN [ok |-> TRUE, value |-> ParseValue(s).value]
    ELSE [ok |-> FALSE, value |-> <<>>]

RECURSIVE RemoveCommaBefore(_, _)
\* re.sub(r',\s*}', '}', s) and re.sub(r',\s*]', ']', s)
RemoveCommaBefore(s, closer) ==
    IF s = <<>> THEN <<>>
    ELSE IF Head(s) = "," /\ LStrip(Tail(s)) # <<>> /\ Head(LStrip(Tail(s))) = closer
    THEN <<closer>> \o RemoveCommaBefore(Tail(LStrip(Tail(s))), closer)
    ELSE <<Head(s)>> \o RemoveCommaBefore(Tail(s), closer)

RECURSIVE WordsEnd(_, _, _)
\* the index after n words separated by white space that start at s[i], 0
\* when s does not hold them there
WordsEnd(s, i, n) ==
    IF Run(s, i, WordChars) = 0 THEN 0
    ELSE IF n = 1 THEN i + Run(s, i, WordChars)
    ELSE IF Run(s, i + Run(s, i, WordChars), {" "}) = 0 THEN 0
    ELSE WordsEnd(s, i + Run(s, i, WordChars)
                         + Run(s, i + Run(s, i, WordChars), {" "}), n - 1)

RECURSIVE FixMeshQuotes(_, _)
\* re.sub of a quoted term of n words that stands before "[": the double
\* quotes become single quotes
FixMeshQuotes(s, n) ==
    IF s = <<>> THEN <<>>
    ELSE LET e == IF Head(s) = "q" THEN WordsEnd(s, 2, n) ELSE 0
         IN IF e # 0 /\ e + 1 <= Len(s) /\ s[e] = "q" /\ s[e + 1] = "["
            THEN <<"'">> \o SubSeq(s, 2, e - 1) \o <<"'", "[">>
                     \o FixMeshQuotes(SubSeq(s, e + 2, Len(s)), n)
            ELSE <<Head(s)>> \o FixMeshQuotes(Tail(s), n)

\* Step 5: the first "domain_summary"\s*:\s*"([^"]*)" of the text, as
\* <<characters>>, or <<>>.  The other string fields are matched by the same
\* pattern; no text of this model holds one of them or the word
\* search_queries.
ExtractFields(json_str) ==
    LET value_at(i) ==
            LET colon == i + 3 + Run(json_str, i + 3, {" "})
                open == colon + 1 + Run(json_str, colon + 1, {" "})
                close == open + IndexOf(SubSeq(json_str, open + 1, Len(json_str)), <<"q">>)
            IN IF /\ i + 2 <= Len(json_str)
                  /\ SubSeq(json_str, i, i + 2) = <<"q", "ds", "q">>
                  /\ colon <= Len(json_str) /\ json_str[colon] = ":"
                  /\ open <= Len(json_str) /\ json_str[open] = "q"
                  /\ close > open
               THEN <<SubSeq(json_str, open + 1, close - 1)>>
               ELSE <<>>
        hits == {i \in 1..Len(json_str) : value_at(i) # <<>>}
    IN IF hits = {} THEN <<>>
       ELSE value_at(CHOOSE i \in hits : \A j \in hits : i <= j)

\* repair_json_response: is_none is TRUE for a None result; stage names the
\* step that produced the result
repair_json_response(text) ==
    LET span == ObjectSpan(ExtractFenced(text))
        commas == RemoveCommaBefore(RemoveCommaBefore(span.text, "}"), "]")
        mesh == FixMeshQuotes(FixMeshQuotes(FixMeshQuotes(commas, 1), 2), 3)
    IN IF ~span.found
       THEN [is_none |-> TRUE, obj |-> <<>>, stage |-> "no_object"]
       ELSE IF json_loads(span.text).ok
       THEN [is_none |-> FALSE, obj |-> json_loads(span.text).value, stage |-> "direct"]
       ELSE IF json_loads(commas).ok
       THEN [is_none |-> FALSE, obj |-> json_loads(commas).value,
             stage |-> "trailing_commas"]
       ELSE IF json_loads(mesh).ok
       THEN [is_none |-> FALSE, obj |-> json_loads(mesh).value, stage |-> "mesh_quotes"]
       ELSE IF ExtractFields(span.text) # <<>>
       THEN [is_none |-> FALSE,
             obj |-> <<"o", <<<<<<"s", <<"ds">>>>, <<"s", ExtractFields(span.text)[1]>>>>,
                             <<<<"s", <<"partial_parse">>>>, <<"s", <<"True">>>>>>>>>>,
             stage |-> "partial"]
       ELSE [is_none |-> TRUE, obj |-> <<>>, stage |-> "failed"]

\* well-formed JSON objects
Objects ==
    {<<"{", "q", "x", "q", ":", "1", "}">>,
     <<"{", "}">>,
     <<"{", "q", "x", "q", ":", "[", "1", ",", " ", "q", "x", "q", "]", ",",
       "q", "1", "q", ":", "{", "}", "}">>,
     <<"{", "q", "x", "q", ":", "q", "x", ",", "}", "q", "}">>,
     <<"{", "q", "x", "q", ":", " ", "q", "x", "F", "q", "}">>,
     <<"{", "q", "ds", "q", ":", "q", "F", "json", "q", "}">>}

\* objects made invalid by trailing commas only, with the text they are
\* without those commas
TrailingCommaCases ==
    {[text |-> <<"{", "q", "x", "q", ":", "1", ",", "}">>,
      clean |-> <<"{", "q", "x", "q", ":", "1", "}">>],
     [text |-> <<"{", "q", "x", "q", ":", "[", "1", ",", "q", "x", "q", ",", " ", "]", ",",
                 "q", "1", "q", ":", "{", "}", ",", " ", "}">>,
      clean |-> <<"{", "q", "x", "q", ":", "[", "1", ",", "q", "x", "q", " ", "]", ",",
                  "q", "1", "q", ":", "{", "}", " ", "}">>],
     [text |-> <<"{", "q", "x", "q", ":", "q", "x", ",", "}", "q", ",", "}">>,
      clean |-> <<"{", "q", "x", "q", ":", "q", "x", ",", "}", "q", "}">>],
     [text |-> <<"{", "q", "ds", "q", ":", "q", "x", ",", "]", "q", ",",
                 "q", "x", "q", ":", "[", "1", ",", "]", "}">>,
      clean |-> <<"{", "q", "ds", "q", ":", "q", "x", ",", "]", "q", ",",
                  "q", "x", "q", ":", "[", "1", "]", "}">>]}

\* prose around a fenced block
ProseBefore == {<<>>, <<"x", " ">>, <<"x", "{", "x", "}", " ">>}
ProseAfter == {<<>>, <<" ", "x">>, <<" ", "}", "x", "{">>}

\* a body inside a tagged fence, inside an untagged fence, or bare
Wrap(kind, body) ==
    CASE kind = "tagged" -> <<"F", "json", " ">> \o body \o <<" ", "F">>
      [] kind = "untagged" -> <<"F", " ">> \o body \o <<" ", "F">>
      [] OTHER -> body

\* texts without an object
Garbage ==
    {<<>>, <<"x", " ", "x">>, <<"}", "x">>,
     <<"q", "ds", "q", ":", "q", "x", "q">>,
     <<"F", "json", " ", "x", " ", "F">>,
     <<"x", "}", " ", "{", "x">>,
     <<"q", "ds", "q", ":", " ", "q", "x", "q", "}", "{">>,
     <<"{", "q", "ds", "q", ":", "q", "x", "q">>,
     <<"F", "{", "F", "}">>}

\* the responses handed to repair_json_response
RawResponses ==
    {b \o Wrap(kind, body) \o a :
        b \in ProseBefore, a \in ProseAfter, kind \in {"tagged", "untagged", "bare"},
        body \in Objects \cup {c.text : c \in TrailingCommaCases}}
    \cup Garbage

NoResult == [is_none |-> TRUE, obj |-> <<>>, stage |-> "not_called"]

rjIdle ==
    /\ rj_pc = "idle"
    /\ raw_response = <<>>
    /\ rj_result = NoResult

\* one call of repair_json_response(raw_response) (lines 61-161)
RJ_Call ==
    /\ rj_pc = "call"
    /\ rj_result' = repair_json_response(raw_response)
    /\ rj_pc' = "returned"
    /\ UNCHANGED <<raw_response, pipeline_type, sse_last, ddVars, gfVars, dpVars, agVars,
                   stVars, fbVars, saVars>>

RepairNext == RJ_Call

\* ========================================================================
\* gap_finder.py : the stages, and the wrapper run_research_gap_pipeline
\* ========================================================================
RESEARCH_GAP_SEQUENCE ==
    <<"query_planner", "data_fetcher", "aggregator",
      "literature_analyzer", "gap_synthesizer">>

EmptyDict == [k \in {} |-> None]

\* dict.get(key) with default None
Get(d, k) == IF k \in DOMAIN d THEN d[k] ELSE None

\* truth value of a string-or-None value
Truthy(v) == v \notin {None, ""}

\* truth value of a dict
NonEmpty(d) == DOMAIN d # {}

\* A response of the LLM, by what repair_json_response reads from it:
\*   syntax - "no_object": no "{" (or no "}" after it); "strict": the span
\*            parses; "trailing_comma": parses once trailing commas are
\*            removed; "garbled": no repair parses
\*   obj    - the object the span denotes (recovered fields when garbled)
\*   and_or - whether the text quotes strings holding AND/OR (PLAN's fallback)
Response(syntax, obj, and_or) == [syntax |-> syntax, obj |-> obj, and_or |-> and_or]

\* the running node has received no response
NoResponse == Response("none", EmptyDict, FALSE)

\* the result of repair_json_response on a response given by its features:
\* is_none is TRUE for a None result
ParsedResponse(r) ==
    CASE r.syntax = "no_object" -> [is_none |-> TRUE, obj |-> EmptyDict]
      [] r.syntax \in {"strict", "trailing_comma"} -> [is_none |-> FALSE, obj |-> r.obj]
      [] OTHER ->
            IF NonEmpty(r.obj)
            THEN [is_none |-> FALSE, obj |-> r.obj]
            ELSE [is_none |-> TRUE, obj |-> EmptyDict]

PlannerResponses ==
    {Response("strict", [search_queries |-> <<"q1", "q2">>, domain_summary |-> "d"], FALSE),
     Response("trailing_comma", [search_queries |-> <<"q1">>], FALSE),
     Response("strict", [search_queries |-> <<>>], TRUE),
     Response("strict", [domain_summary |-> "d"], FALSE),
     Response("no_object", EmptyDict, FALSE),
     Response("garbled", EmptyDict, TRUE)}

AnalyzerResponses ==
    {Response("strict", [key_findings_summary |-> "s", distribution_insights |-> "dict"], FALSE),
     Response("strict", [distribution_insights |-> None], FALSE),
     Response("strict", [error |-> "model refused"], FALSE),
     Response("strict", EmptyDict, FALSE),
     Response("garbled", [key_findings_summary |-> "s", partial_parse |-> "True"], FALSE),
     Response("no_object", EmptyDict, FALSE)}

SynthesizerResponses ==
    {Response("strict", [synthesis_summary |-> "s", research_gaps |-> "list_of_dicts"], FALSE),
     Response("trailing_comma", [research_gaps |-> "list_of_strings"], FALSE),
     Response("garbled", EmptyDict, FALSE),
     Response("no_object", EmptyDict, FALSE)}

\* str(e) of the exceptions a call may raise
ErrorMessages == {"boom", ""}

\* the documents fetch_in_batches may return, as lists of PubmedArticle elements
FetchedArticleLists ==
    {<<>>,
     <<Article("1", <<"a">>, <<"Adult", "Counseling">>, <<>>, 2020, "text")>>,
     <<WithDoi(Article("1", <<"a">>, <<"Adult", "Aged", "Counseling">>,
                       <<"Randomized Controlled Trial">>, 2020, "text"), "10.1/a"),
       Article("2", <<"A", " ">>, <<"Adult", "Counseling">>, <<>>, 2021, "text"),
       Article("3", <<"b">>, <<"Aged", "Aged, 80 and over", "Methadone">>,
               <<"Journal Article", "Review">>, NoYear, None)>>,
     <<Article(None, NoTitle, <<>>, <<>>, NoYear, None),
       Article(None, NoTitle, <<>>, <<>>, NoYear, None)>>}

\* the paper lists parse_pubmed_xml returns for them
FetchedPaperLists == {parse_pubmed_xml(articles) : articles \in FetchedArticleLists}

Event(type, agent, phase) == [type |-> type, agent |-> agent, phase |-> phase]

\* run_research_gap_pipeline: the SSE messages written for one event
SSEMap(e) ==
    IF e.type = "agent_event"
    THEN CASE e.phase = "thinking" -> <<Msg("agent", e.agent, "thinking", "")>>
           [] e.phase \in {"output", "working", "warning"} ->
                 <<Msg("agent", e.agent, "output", "")>>
           [] e.phase \in {"complete", "error"} ->
                 <<Msg("agent", e.agent, "complete", "")>>
           [] OTHER -> <<>>
    ELSE IF e.type = "pipeline_complete"
    THEN <<Msg("iteration_end", "", "", ""), Msg("pipeline_complete", "", "", "COMPLETE")>>
    ELSE IF e.type = "pipeline_error"
    THEN <<Msg("error", "", "", "")>>
    ELSE <<>>

RECURSIVE SSEOf(_)
\* the SSE messages written for a sequence of events
SSEOf(es) == IF es = <<>> THEN <<>> ELSE SSEMap(Head(es)) \o SSEOf(Tail(es))

\* the last message on the stream after the events es have been relayed
LastAfter(prev, es) == IF SSEOf(es) = <<>> THEN prev ELSE Last(SSEOf(es))

InitialGapState ==
    [search_plan |-> EmptyDict, search_queries |-> <<>>, raw_papers |-> <<>>,
     paper_count |-> 0, statistics |-> EmptyDict, analysis |-> EmptyDict,
     gaps |-> EmptyDict, current_node |-> "", error |-> None]

gfIdle ==
    /\ gf_pc = "idle"
    /\ node_idx = 0
    /\ current_state = InitialGapState
    /\ events = <<>>
    /\ failures = {}
    /\ full_response = NoResponse

CurrentNode == RESEARCH_GAP_SEQUENCE[node_idx]

\* the steps below relay the events they yield through the wrapper
Emit(es) ==
    /\ events' = events \o es
    /\ sse_last' = LastAfter(sse_last, es)

\* run_research_gap_pipeline up to its first yield (backend.py lines 137-143)
RG_Start ==
    /\ gf_pc = "wrapper"
    /\ IF GAP_FINDER_AVAILABLE
       THEN /\ sse_last' = Msg("iteration_start", "", "", "")
            /\ gf_pc' = "start"
       ELSE /\ sse_last' = Msg("error", "", "", "")
            /\ gf_pc' = "closed"
    /\ UNCHANGED <<pipeline_type, GAP_FINDER_AVAILABLE, node_idx, current_state,
                   events, failures, full_response, ddVars, dpVars, agVars, rjVars,
                   stVars, fbVars, saVars>>

\* yield pipeline_start (gap_finder.py lines 386-399)
GF_Start ==
    /\ gf_pc = "start"
    /\ Emit(<<Event("pipeline_start", "", "")>>)
    /\ node_idx' = 1
    /\ gf_pc' = "thinking"
    /\ UNCHANGED <<pipeline_type, GAP_FINDER_AVAILABLE, current_state, failures, full_response,
                   ddVars, dpVars, agVars, rjVars, stVars, fbVars, saVars>>

\* the thinking event and the first output event of a node
GF_Thinking ==
    /\ gf_pc = "thinking"
    /\ Emit(<<Event("agent_event", CurrentNode, "thinking"),
              Event("agent_event", CurrentNode, "output")>>)
    /\ gf_pc' = "work"
    /\ full_response' = NoResponse
    /\ UNCHANGED <<pipeline_type, GAP_FINDER_AVAILABLE, node_idx, current_state,
                   failures, ddVars, dpVars, agVars, rjVars, stVars, fbVars, saVars>>

\* the except branch of an LLM node: an error event
NodeError == <<Event("agent_event", CurrentNode, "error")>>

\* Node 1 (lines 414-460)
GF_QueryPlanner ==
    /\ gf_pc = "work" /\ CurrentNode = "query_planner"
    /\ \/ \E msg \in ErrorMessages :          \* llm.ainvoke raises
            /\ Emit(NodeError)
            /\ current_state' = [current_state EXCEPT !.error = msg,
                                                      !.search_queries = <<"user_query">>]
            /\ failures' = failures \cup {CurrentNode}
            /\ UNCHANGED full_response
       \/ \E r \in PlannerResponses :
            LET plan == ParsedResponse(r)
                parsed == ~plan.is_none /\ NonEmpty(plan.obj)
                              /\ "search_queries" \in DOMAIN plan.obj
                              /\ plan.obj.search_queries # <<>>
            IN /\ current_state' =
                    [current_state EXCEPT
                       !.search_plan = IF parsed THEN plan.obj
                                       ELSE [domain_summary |-> "user_query",
                                             search_rationale |-> "fallback"],
                       !.search_queries =
                            IF parsed THEN plan.obj.search_queries
                            ELSE IF r.and_or THEN <<"x AND y">>
                            ELSE <<"user_query", "user_query[Title/Abstract]">>,
                       !.current_node = CurrentNode]
               /\ full_response' = r
               /\ UNCHANGED <<events, sse_last, failures>>
    /\ gf_pc' = "format"
    /\ UNCHANGED <<pipeline_type, GAP_FINDER_AVAILABLE, node_idx, ddVars, dpVars, agVars, rjVars, stVars, fbVars, saVars>>

\* data_fetcher_node (lines 269-334)
\* the OpenAlex enrichment of data_fetcher_node (lines 308-318): when a paper
\* has a DOI, enrich_papers_by_doi is called; it raises (the exception is
\* swallowed), finds no work, or gives the cited_by_count of the papers
Enrichments == {"raises", "not_found", "found"}

Enrich(ps, enrichment) ==
    IF enrichment = "found"
    THEN [i \in 1..Len(ps) |->
            IF ps[i].doi # None
            THEN [ps[i] EXCEPT !.citations = "cited_by_count"]
            ELSE ps[i]]
    ELSE ps

data_fetcher_node(st, search, fetched, enrichment) ==
    IF st.search_queries = <<>>
    THEN [st EXCEPT !.raw_papers = <<>>, !.paper_count = 0,
                    !.current_node = "data_fetcher",
                    !.error = "No search queries provided"]
    ELSE IF search = "raises"
    THEN [st EXCEPT !.raw_papers = <<>>, !.paper_count = 0,
                    !.current_node = "data_fetcher", !.error = "Data fetch error"]
    ELSE IF search = "no_pmids"
    THEN [st EXCEPT !.raw_papers = <<>>, !.paper_count = 0,
                    !.current_node = "data_fetcher",
                    !.error = "No papers found for search queries"]
    ELSE IF search = "fetch_raises" \/ deduplicate_papers(fetched).raised
    THEN [st EXCEPT !.raw_papers = <<>>, !.paper_count = 0,
                    !.current_node = "data_fetcher", !.error = "Data fetch error"]
    ELSE [st EXCEPT !.raw_papers =
                        Enrich(deduplicate_papers(fetched).unique_papers, enrichment),
                    !.paper_count = Len(deduplicate_papers(fetched).unique_papers),
                    !.current_node = "data_fetcher", !.error = None]

\* Node 2 (lines 480)
GF_DataFetcher ==
    /\ gf_pc = "work" /\ CurrentNode = "data_fetcher"
    /\ \E search \in {"raises", "no_pmids", "fetch_raises", "pmids"},
          fetched \in FetchedPaperLists, enrichment \in Enrichments :
            /\ search # "pmids" => fetched = <<>>
            /\ current_state' =
                    data_fetcher_node(current_state, search, fetched, enrichment)
            /\ failures' = IF search \in {"raises", "fetch_raises"}
                           THEN failures \cup {CurrentNode} ELSE failures
    /\ gf_pc' = "format"
    /\ UNCHANGED <<pipeline_type, sse_last, GAP_FINDER_AVAILABLE, node_idx, events, full_response,
                   ddVars, dpVars, agVars, rjVars, stVars, fbVars, saVars>>

\* aggregator_node (lines 337-368)
aggregator_node(st, raises) ==
    IF st.raw_papers = <<>>
    THEN [st EXCEPT !.statistics = [error |-> "No papers to aggregate"],
                    !.current_node = "aggregator",
                    !.error = "No papers available for aggregation"]
    ELSE IF raises
    THEN [st EXCEPT !.statistics = EmptyDict,
                    !.current_node = "aggregator", !.error = "Aggregation error"]
    ELSE [st EXCEPT !.statistics = generate_statistics_summary(st.raw_papers),
                    !.current_node = "aggregator", !.error = None]

\* Node 3 (line 502)
GF_Aggregator ==
    /\ gf_pc = "work" /\ CurrentNode = "aggregator"
    /\ \E raises \in BOOLEAN :
            /\ raises => current_state.raw_papers # <<>>
            /\ current_state' = aggregator_node(current_state, raises)
            /\ failures' = IF raises THEN failures \cup {CurrentNode} ELSE failures
    /\ gf_pc' = "format"
    /\ UNCHANGED <<pipeline_type, sse_last, GAP_FINDER_AVAILABLE, node_idx, events, full_response,
                   ddVars, dpVars, agVars, rjVars, stVars, fbVars, saVars>>

\* Usable that does not look for an error marker
Usable_IgnoringError(d) == NonEmpty(d)

\* "if stats and not stats.get('error')" / "if analysis and not analysis.get('error')"
Usable(d) == NonEmpty(d) /\ ~Truthy(Get(d, "error"))

\* StoredObject without the "if not analysis" / "if not gaps" branch
StoredObject_Unwrapped(r, raw_key) == ParsedResponse(r).obj

\* the value stored by an LLM node for a response: the parsed object, or the
\* raw text wrapped with parse_error when repair returns None or {}
StoredObject(r, raw_key) ==
    LET parsed == ParsedResponse(r)
    IN IF parsed.is_none \/ ~NonEmpty(parsed.obj)
       THEN [k \in {raw_key, "parse_error"} |-> IF k = raw_key THEN "raw text" ELSE "True"]
       ELSE parsed.obj

\* Node 4 (lines 521-558)
GF_LiteratureAnalyzer ==
    /\ gf_pc = "work" /\ CurrentNode = "literature_analyzer"
    /\ IF Usable(current_state.statistics)
       THEN \/ \E msg \in ErrorMessages :     \* llm.ainvoke raises
                 /\ Emit(NodeError)
                 /\ current_state' = [current_state EXCEPT !.analysis = [error |-> msg]]
                 /\ failures' = failures \cup {CurrentNode}
                 /\ UNCHANGED full_response
            \/ \E r \in AnalyzerResponses :
                 /\ current_state' =
                       [current_state EXCEPT !.analysis = StoredObject(r, "raw_analysis"),
                                             !.current_node = CurrentNode]
                 /\ full_response' = r
                 /\ UNCHANGED <<events, sse_last, failures>>
       ELSE /\ current_state' =
                  [current_state EXCEPT !.analysis = [error |-> "No statistics to analyze"],
                                        !.current_node = CurrentNode]
            /\ UNCHANGED <<events, sse_last, failures, full_response>>
    /\ gf_pc' = "format"
    /\ UNCHANGED <<pipeline_type, GAP_FINDER_AVAILABLE, node_idx, ddVars, dpVars, agVars, rjVars, stVars, fbVars, saVars>>

\* Node 5 (lines 577-610)
GF_GapSynthesizer ==
    /\ gf_pc = "work" /\ CurrentNode = "gap_synthesizer"
    /\ IF Usable(current_state.analysis)
       THEN \/ \E msg \in ErrorMessages :     \* llm.ainvoke raises
                 /\ Emit(NodeError)
                 /\ current_state' = [current_state EXCEPT !.gaps = [error |-> msg]]
                 /\ failures' = failures \cup {CurrentNode}
                 /\ UNCHANGED full_response
            \/ \E r \in SynthesizerResponses :
                 /\ current_state' =
                       [current_state EXCEPT !.gaps = StoredObject(r, "raw_synthesis"),
                                             !.current_node = CurrentNode]
                 /\ full_response' = r
                 /\ UNCHANGED <<events, sse_last, failures>>
       ELSE /\ current_state' =
                  [current_state EXCEPT !.gaps = [error |-> "No analysis to synthesize"],
                                        !.current_node = CurrentNode]
            /\ UNCHANGED <<events, sse_last, failures, full_response>>
    /\ gf_pc' = "format"
    /\ UNCHANGED <<pipeline_type, GAP_FINDER_AVAILABLE, node_idx, ddVars, dpVars, agVars, rjVars, stVars, fbVars, saVars>>

\* _format_literature_analyzer_output raises when it calls .get on a
\* distribution_insights value that is not a dict (lines 696-698)
AnalyzerFormatRaises(analysis) ==
    /\ ~Truthy(Get(analysis, "error"))
    /\ "distribution_insights" \in DOMAIN analysis
    /\ analysis.distribution_insights # "dict"

\* _format_gap_synthesizer_output raises when it calls .get on an element of
\* research_gaps that is not a dict (lines 747-755)
SynthesizerFormatRaises(gaps) ==
    /\ ~Truthy(Get(gaps, "error"))
    /\ "research_gaps" \in DOMAIN gaps
    /\ gaps.research_gaps # "list_of_dicts"

\* FormatRaises with an aggregator formatter that indexes total_papers
\* instead of reading it with a default
FormatRaises_Strict(node, st) ==
    CASE node = "aggregator" -> "total_papers" \notin DOMAIN st.statistics
      [] node = "literature_analyzer" -> AnalyzerFormatRaises(st.analysis)
      [] node = "gap_synthesizer" -> SynthesizerFormatRaises(st.gaps)
      [] OTHER -> FALSE

\* whether the display formatter of the node raises on the state
FormatRaises(node, st) ==
    CASE node = "literature_analyzer" -> AnalyzerFormatRaises(st.analysis)
      [] node = "gap_synthesizer" -> SynthesizerFormatRaises(st.gaps)
      [] OTHER -> FALSE

\* the formatter and the complete event of a node (lines 462-466, 482-488,
\* 504-507, 560-563, 612-613); an exception of the formatter leaves the
\* generator and is caught by the wrapper (backend.py lines 182-186)
GF_Complete ==
    /\ gf_pc = "format"
    /\ IF FormatRaises(CurrentNode, current_state)
       THEN /\ gf_pc' = "raised"
            /\ sse_last' = Msg("error", "", "", "")
            /\ UNCHANGED <<events, node_idx>>
       ELSE /\ Emit(<<Event("agent_event", CurrentNode, "complete")>>
                    \o (IF CurrentNode = "data_fetcher" /\ Truthy(current_state.error)
                        THEN <<Event("agent_event", CurrentNode, "warning")>>
                        ELSE <<>>))
            /\ IF node_idx < Len(RESEARCH_GAP_SEQUENCE)
               THEN gf_pc' = "thinking" /\ node_idx' = node_idx + 1
               ELSE gf_pc' = "final" /\ UNCHANGED node_idx
    /\ UNCHANGED <<pipeline_type, GAP_FINDER_AVAILABLE, current_state, failures, full_response,
                   ddVars, dpVars, agVars, rjVars, stVars, fbVars, saVars>>

\* the result carried by the pipeline_complete event (lines 619-628)
PipelineResult(st) ==
    [gaps |-> st.gaps,
     statistics |-> [total_papers |-> st.paper_count,
                     queries_used |-> Len(st.search_queries)]]

\* yield pipeline_complete (lines 619-628)
GF_PipelineComplete ==
    /\ gf_pc = "final"
    /\ Emit(<<Event("pipeline_complete", "", "")>>)
    /\ gf_pc' = "done"
    /\ UNCHANGED <<pipeline_type, GAP_FINDER_AVAILABLE, node_idx, current_state,
                   failures, full_response, ddVars, dpVars, agVars, rjVars, stVars, fbVars, saVars>>

GFNext ==
    \/ RG_Start
    \/ GF_Start
    \/ GF_Thinking
    \/ GF_QueryPlanner
    \/ GF_DataFetcher
    \/ GF_Aggregator
    \/ GF_LiteratureAnalyzer
    \/ GF_GapSynthesizer
    \/ GF_Complete
    \/ GF_PipelineComplete

\* ========================================================================
\* Specifications
\* ========================================================================
\* stream_pipeline (backend.py lines 198-215): one request of either type
Init ==
    /\ pipeline_type \in {"drug_discovery", "research_gap"}
    /\ sse_last = NoMsg
    /\ max_loops \in 0..MaxLoopsBound
    /\ agent_idx = 0
    /\ iteration_num = 1
    /\ state = InitialState
    /\ user_input = NoInput
    /\ full_output = EmptyText
    /\ controller_runs = 0
    /\ first_input = [a \in Range(DRUG_DISCOVERY_SEQUENCE) |-> NoInput]
    /\ loop_to = None
    /\ dd_events = <<>>
    /\ dd_pc = IF pipeline_type = "drug_discovery" THEN "start" ELSE "idle"
    /\ GAP_FINDER_AVAILABLE \in BOOLEAN
    /\ gf_pc = IF pipeline_type = "research_gap" THEN "wrapper" ELSE "idle"
    /\ node_idx = 0
    /\ current_state = InitialGapState
    /\ events = <<>>
    /\ failures = {}
    /\ full_response = NoResponse
    /\ dpIdle
    /\ agIdle
    /\ rjIdle
    /\ stIdle
    /\ fbIdle
    /\ saIdle

Next == DDNext \/ GFNext

Spec == Init /\ [][Next]_vars

\* the event loop keeps running a generator that can take a step
FairSpec == Spec /\ WF_vars(Next)

\* deduplicate_papers applied to every short list of papers
InitDedup ==
    /\ pipeline_type = "none"
    /\ sse_last = NoMsg
    /\ ddIdle
    /\ GAP_FINDER_AVAILABLE = TRUE
    /\ gfIdle
    /\ papers \in SeqsUpTo(PaperDomain, MaxPapers)
    /\ dp_pc = "loop"
    /\ dp_i = 0
    /\ seen_pmids = {}
    /\ seen_titles = {}
    /\ unique_papers = <<>>
    /\ kept = <<>>
    /\ agIdle
    /\ rjIdle
    /\ stIdle
    /\ fbIdle
    /\ saIdle

SpecDedup == InitDedup /\ [][DedupNext]_vars

\* generate_statistics_summary applied to every short corpus
InitAgg ==
    /\ pipeline_type = "none"
    /\ sse_last = NoMsg
    /\ ddIdle
    /\ GAP_FINDER_AVAILABLE = TRUE
    /\ gfIdle
    /\ dpIdle
    /\ rjIdle
    /\ stIdle
    /\ fbIdle
    /\ saIdle
    /\ ag_papers \in Corpora
    /\ ag_pc = "call"
    /\ summary = NoSummary

SpecAgg == InitAgg /\ [][AggNext]_vars

\* repair_json_response applied to every response of RawResponses
InitRepair ==
    /\ pipeline_type = "none"
    /\ sse_last = NoMsg
    /\ ddIdle
    /\ GAP_FINDER_AVAILABLE = TRUE
    /\ gfIdle
    /\ dpIdle
    /\ agIdle
    /\ raw_response \in RawResponses
    /\ rj_pc = "call"
    /\ rj_result = NoResult
    /\ stIdle
    /\ fbIdle
    /\ saIdle

SpecRepair == InitRepair /\ [][RepairNext]_vars

\* one stage execution on every short stream of chunks
InitStream ==
    /\ pipeline_type = "none"
    /\ sse_last = NoMsg
    /\ ddIdle
    /\ GAP_FINDER_AVAILABLE = TRUE
    /\ gfIdle
    /\ dpIdle
    /\ agIdle
    /\ rjIdle
    /\ llm_chunks \in StreamsUpTo(MaxChunks)
    /\ st_pc = "thinking"
    /\ st_i = 0
    /\ st_full_output = <<>>
    /\ st_events = <<>>
    /\ st_hypothesis = <<>>
    /\ fbIdle
    /\ saIdle

SpecStream == InitStream /\ [][StreamNext]_vars

\* ========================================================================
\* The search and the fetch of data_fetcher_node, call by call
\* (gap_finder.py 274-334, api_clients/pubmed.py, processors/xml_parser.py)
\* ========================================================================
\* the identifiers PubMed may return
PMIDs == 1..(MaxTotal + 1)

\* what one call of search_pubmed does: it returns a list of identifiers, or
\* httpx / raise_for_status raises (pubmed.py 40-41, no handler)
SearchOutcomes ==
    {[raised |-> TRUE, pmids |-> {}]} \cup {[raised |-> FALSE, pmids |-> S] : S \in SUBSET PMIDs}

\* list(all_pmids)[:MAX_PAPERS_TOTAL]: a set lists its members in any order
PmidLists(S) ==
    {l \in [1..Min(Cardinality(S), MaxTotal) -> S] :
        \A i, j \in DOMAIN l : i # j => l[i] # l[j]}

\* ---- payloads: sequences of tokens ----
Tok(kind, id) == [kind |-> kind, id |-> id]
XmlDecl == Tok("<?xml", 0)              \* "<?xml" and the declaration it opens
Newline == Tok("\n", 0)
Junk == Tok("text", 0)                  \* characters other than "<" and white space
SetOpen == Tok("<PubmedArticleSet>", 0)
SetClose == Tok("</PubmedArticleSet>", 0)
PubmedArticle(id) == Tok("<PubmedArticle>", id)  \* one whole PubmedArticle element

\* what one call of fetch_pubmed_records may return for a batch of identifiers
PayloadShapes == {"ok", "text", "truncated", "empty", "leading", "raises"}

Document(ids) ==
    <<XmlDecl, Newline, SetOpen>> \o [i \in 1..Len(ids) |-> PubmedArticle(ids[i])]
        \o <<SetClose>>

Payload(shape, ids) ==
    CASE shape = "ok" -> Document(ids)
      [] shape = "text" -> <<Junk>>
      [] shape = "truncated" -> Front(Document(ids))
      [] shape = "leading" -> <<Junk>> \o Document(ids)
      [] OTHER -> <<>>

\* "\n".join(xml_parts) (pubmed.py 175)
RECURSIVE Join(_)
Join(parts) ==
    IF parts = <<>> THEN <<>>
    ELSE IF Len(parts) = 1 THEN Head(parts)
    ELSE Head(parts) \o <<Newline>> \o Join(Tail(parts))

\* ET.fromstring: an optional declaration at the very start, then one
\* PubmedArticleSet element, white space allowed around it
fromstring(xml_string) ==
    LET body == IF xml_string # <<>> /\ Head(xml_string) = XmlDecl
                THEN Tail(xml_string) ELSE xml_string
        elems == SelectSeq(body, LAMBDA t : t # Newline)
        ok == /\ Len(elems) >= 2
              /\ Head(elems) = SetOpen
              /\ Last(elems) = SetClose
              /\ \A i \in 2..(Len(elems) - 1) : elems[i].kind = "<PubmedArticle>"
    IN [ok |-> ok, articles |-> IF ok THEN SubSeq(elems, 2, Len(elems) - 1) ELSE <<>>]

\* xml_string.find("<") (0-based, -1 when there is none)
FindTag(xml_string) ==
    LET tags == {i \in 1..Len(xml_string) : xml_string[i].kind \notin {"text", "\n"}}
    IN IF tags = {} THEN NoMatch
       ELSE (CHOOSE i \in tags : \A j \in tags : i <= j) - 1

\* "if start_idx > 0: xml_string = xml_string[start_idx:]" (lines 51-53)
Trimmed(xml_string) ==
    IF FindTag(xml_string) > 0
    THEN SubSeq(xml_string, FindTag(xml_string) + 1, Len(xml_string))
    ELSE xml_string

\* _parse_single_xml: the PubmedArticle elements of one document, [] when the
\* document parses neither as it is nor trimmed (lines 45-64)
_parse_single_xml(xml_string) ==
    IF fromstring(xml_string).ok
    THEN fromstring(xml_string).articles
    ELSE fromstring(Trimmed(xml_string)).articles

\* xml_string.split("<?xml")
RECURSIVE split(_)
split(xml_string) ==
    LET i == IndexOf(xml_string, <<XmlDecl>>)
    IN IF i = 0 THEN <<xml_string>>
       ELSE <<SubSeq(xml_string, 1, i - 1)>>
                \o split(SubSeq(xml_string, i + 1, Len(xml_string)))

\* the loop over xml_parts (lines 30-34)
RECURSIVE ParseParts(_)
ParseParts(parts) ==
    IF parts = <<>> THEN <<>>
    ELSE (IF \E i \in 1..Len(Head(parts)) : Head(parts)[i] # Newline
          THEN _parse_single_xml(<<XmlDecl>> \o Head(parts))
          ELSE <<>>) \o ParseParts(Tail(parts))

\* the PubmedArticle elements parse_pubmed_xml finds in a payload (lines 23-38)
ParsedArticles(xml_string) ==
    IF Len(split(xml_string)) - 1 > 1
    THEN ParseParts(split(xml_string))
    ELSE _parse_single_xml(xml_string)

\* a sleep after every call, the last one included
SleepDue_Always(next_i, total) == TRUE

\* "if i < len(queries) - 1" and "if i + batch_size < len(pmids)" (pubmed.py
\* 135, 172): a call is followed by a sleep when the loop has a next turn
SleepDue(next_i, total) == next_i < total

\* "if not queries" (gap_finder.py 277-284)
DF_Start ==
    /\ fb_pc = "start"
    /\ IF n_queries = 0
       THEN /\ fb_pc' = "returned"
            /\ fb_result' = FetchResult(<<>>, "No search queries provided")
       ELSE /\ fb_pc' = "search"
            /\ UNCHANGED fb_result
    /\ UNCHANGED <<n_queries, fb_i, all_pmids, searched, pmid_list, xml_parts, fb_calls>>
    /\ UNCHANGED <<pipeline_type, sse_last, ddVars, gfVars, dpVars, agVars, rjVars, stVars, saVars>>

\* one turn of the loop of search_multiple_queries up to its sleep
\* (pubmed.py 127-132); an exception of search_pubmed leaves the loop and
\* the function and is caught by data_fetcher_node (gap_finder.py 327-334)
SQ_Search ==
    /\ fb_pc = "search"
    /\ fb_calls' = Append(fb_calls, "esearch")
    /\ \E outcome \in SearchOutcomes :
        IF outcome.raised
        THEN /\ searched' = Append(searched, "failed")
             /\ fb_pc' = "returned"
             /\ fb_result' = FetchResult(<<>>, "Data fetch error")
             /\ UNCHANGED <<fb_i, all_pmids>>
        ELSE /\ searched' = Append(searched, "ok")
             /\ all_pmids' = all_pmids \cup outcome.pmids
             /\ fb_i' = fb_i + 1
             /\ fb_pc' = IF SleepDue(fb_i + 1, n_queries) THEN "search_sleep" ELSE "pmids"
             /\ UNCHANGED fb_result
    /\ UNCHANGED <<n_queries, pmid_list, xml_parts>>
    /\ UNCHANGED <<pipeline_type, sse_last, ddVars, gfVars, dpVars, agVars, rjVars, stVars, saVars>>

\* "if i < len(queries) - 1: await asyncio.sleep(...)" (pubmed.py 135-136)
SQ_Sleep ==
    /\ fb_pc = "search_sleep"
    /\ fb_calls' = Append(fb_calls, "sleep")
    /\ fb_pc' = IF fb_i < n_queries THEN "search" ELSE "pmids"   \* the for statement
    /\ UNCHANGED <<n_queries, fb_i, all_pmids, searched, pmid_list, xml_parts, fb_result>>
    /\ UNCHANGED <<pipeline_type, sse_last, ddVars, gfVars, dpVars, agVars, rjVars, stVars, saVars>>

\* the cap and "if not pmids" (gap_finder.py 290-299)
DF_Pmids ==
    /\ fb_pc = "pmids"
    /\ IF all_pmids = {}
       THEN /\ fb_pc' = "returned"
            /\ fb_result' = FetchResult(<<>>, "No papers found for search queries")
            /\ UNCHANGED pmid_list
       ELSE /\ pmid_list' \in PmidLists(all_pmids)
            /\ fb_pc' = "fetch"
            /\ UNCHANGED fb_result
    /\ fb_i' = 0
    /\ UNCHANGED <<n_queries, all_pmids, searched, xml_parts, fb_calls>>
    /\ UNCHANGED <<pipeline_type, sse_last, ddVars, gfVars, dpVars, agVars, rjVars, stVars, saVars>>

\* one turn of the loop of fetch_in_batches up to its sleep (pubmed.py
\* 162-169); fb_i is the loop's i
FB_Fetch ==
    /\ fb_pc = "fetch"
    /\ fb_calls' = Append(fb_calls, "efetch")
    /\ \E shape \in PayloadShapes :
        IF shape = "raises"
        THEN /\ fb_pc' = "returned"
             /\ fb_result' = FetchResult(<<>>, "Data fetch error")
             /\ UNCHANGED <<fb_i, xml_parts>>
        ELSE /\ xml_parts' = Append(xml_parts,
                    Payload(shape, SubSeq(pmid_list, fb_i + 1,
                                          Min(fb_i + FetchBatchSize, Len(pmid_list)))))
             /\ fb_i' = fb_i + FetchBatchSize
             /\ fb_pc' = IF SleepDue(fb_i + FetchBatchSize, Len(pmid_list))
                         THEN "fetch_sleep" ELSE "parse"
             /\ UNCHANGED fb_result
    /\ UNCHANGED <<n_queries, all_pmids, searched, pmid_list>>
    /\ UNCHANGED <<pipeline_type, sse_last, ddVars, gfVars, dpVars, agVars, rjVars, stVars, saVars>>

\* "if i + batch_size < len(pmids): await asyncio.sleep(...)" (pubmed.py 172-173)
FB_Sleep ==
    /\ fb_pc = "fetch_sleep"
    /\ fb_calls' = Append(fb_calls, "sleep")
    /\ fb_pc' = IF fb_i < Len(pmid_list) THEN "fetch" ELSE "parse"   \* the for statement
    /\ UNCHANGED <<n_queries, fb_i, all_pmids, searched, pmid_list, xml_parts, fb_result>>
    /\ UNCHANGED <<pipeline_type, sse_last, ddVars, gfVars, dpVars, agVars, rjVars, stVars, saVars>>

\* parse_pubmed_xml on the joined payload (gap_finder.py 305); the records
\* carry distinct identifiers, so that deduplicate_papers keeps them all
DF_Parse ==
    /\ fb_pc = "parse"
    /\ fb_result' = FetchResult(ParsedArticles(Join(xml_parts)), None)
    /\ fb_pc' = "returned"
    /\ UNCHANGED <<n_queries, fb_i, all_pmids, searched, pmid_list, xml_parts, fb_calls>>
    /\ UNCHANGED <<pipeline_type, sse_last, ddVars, gfVars, dpVars, agVars, rjVars, stVars, saVars>>

FetchNext == DF_Start \/ SQ_Search \/ SQ_Sleep \/ DF_Pmids \/ FB_Fetch \/ FB_Sleep \/ DF_Parse

\* one search and fetch for every short list of queries
InitFetch ==
    /\ pipeline_type = "none"
    /\ sse_last = NoMsg
    /\ ddIdle
    /\ GAP_FINDER_AVAILABLE = TRUE
    /\ gfIdle
    /\ dpIdle
    /\ agIdle
    /\ rjIdle
    /\ stIdle
    /\ fb_pc = "start"
    /\ n_queries \in 0..MaxQueries
    /\ fb_i = 0
    /\ all_pmids = {}
    /\ searched = <<>>
    /\ pmid_list = <<>>
    /\ xml_parts = <<>>
    /\ fb_calls = <<>>
    /\ fb_result = FetchResult(<<>>, None)
    /\ saIdle

SpecFetch == InitFetch /\ [][FetchNext]_vars

\* ========================================================================
\* sample_abstracts with its random draws (processors/aggregator.py 214-272)
\* ========================================================================
SamplePaper(pmid, abstract, study_type) ==
    [pmid |-> pmid, abstract |-> abstract, pico |-> [study_type |-> study_type]]

\* papers as deduplicate_papers delivers them: an identifier occurs once,
\* papers without identifier may be several (they differ in their titles)
SamplePool ==
    {SamplePaper("1", "text", <<"rct">>),
     SamplePaper("2", "text", <<"review", "rct">>),
     SamplePaper("3", "", <<"rct">>),
     SamplePaper(None, "text", <<"rct">>),
     SamplePaper(None, "text", <<"review">>),
     SamplePaper(None, "text", <<>>),
     SamplePaper(None, None, <<>>)}

SampleInputs ==
    {ps \in SeqsUpTo(SamplePool, MaxCorpus) :
        \A i, j \in 1..Len(ps) : (i # j /\ ps[i].pmid # None) => ps[i].pmid # ps[j].pmid}

\* the positions of the papers with an abstract (line 231)
WithAbstracts(ps) == {i \in 1..Len(ps) : Truthy(ps[i].abstract)}

\* the key of by_study_type a paper is filed under (lines 245-246)
FirstStudyType(p) ==
    IF p.pico.study_type = <<>> THEN "unknown" ELSE p.pico.study_type[1]

\* the keys of by_study_type in insertion order (lines 243-249)
RECURSIVE StudyTypesFrom(_, _, _)
StudyTypesFrom(ps, i, acc) ==
    IF i > Len(ps) THEN acc
    ELSE IF i \in WithAbstracts(ps) /\ FirstStudyType(ps[i]) \notin Range(acc)
    THEN StudyTypesFrom(ps, i + 1, Append(acc, FirstStudyType(ps[i])))
    ELSE StudyTypesFrom(ps, i + 1, acc)

\* random.sample(population, k): k distinct members in any order
Draws(population, k) ==
    {s \in [1..k -> population] : \A i, j \in 1..k : i # j => s[i] # s[j]}

\* "p.get('pmid') not in sampled_pmids" (lines 255, 267)
Unsampled(ps, pool, sampled) ==
    {i \in pool : ps[i].pmid \notin {ps[j].pmid : j \in Range(sampled)}}

\* the loop over by_study_type (lines 254-261): the lists it may leave in sampled
RECURSIVE SampledByType(_, _, _, _)
SampledByType(ps, types, per_type, sampled) ==
    IF types = <<>> THEN {sampled}
    ELSE LET available == Unsampled(ps, {i \in WithAbstracts(ps) :
                                            FirstStudyType(ps[i]) = Head(types)}, sampled)
             to_sample == Min(per_type, Cardinality(available))
         IN UNION {SampledByType(ps, Tail(types), per_type, sampled \o selected) :
                        selected \in Draws(available, to_sample)}

\* the fill of the remaining slots and the cut (lines 264-272)
Filled(ps, n, sampled) ==
    LET remaining == n - Len(sampled)
        available == Unsampled(ps, WithAbstracts(ps), sampled)
    IN IF remaining > 0 /\ available # {}
       THEN {SubSeq(sampled \o additional, 1, n) :
                additional \in Draws(available, Min(remaining, Cardinality(available)))}
       ELSE {SubSeq(sampled, 1, Min(n, Len(sampled)))}

\* the lists sample_abstracts(papers, n, "diverse") may return, as positions
\* in papers
SampleOutcomes(ps, n) ==
    IF Cardinality(WithAbstracts(ps)) <= n
    THEN {[k \in 1..Len(sample_abstracts(ps)) |->
            CHOOSE i \in WithAbstracts(ps) :
                Cardinality({j \in WithAbstracts(ps) : j < i}) = k - 1]}
    ELSE LET types == StudyTypesFrom(ps, 1, <<>>)
             per_type == Max(1, n \div Len(types))
         IN UNION {Filled(ps, n, sampled) :
                        sampled \in SampledByType(ps, types, per_type, <<>>)}

SA_Call ==
    /\ sa_pc = "call"
    /\ sa_result' \in SampleOutcomes(sa_papers, sa_n)
    /\ sa_pc' = "returned"
    /\ UNCHANGED <<sa_papers, sa_n>>
    /\ UNCHANGED <<pipeline_type, sse_last, ddVars, gfVars, dpVars, agVars, rjVars, stVars,
                   fbVars>>

SampleNext == SA_Call

\* sample_abstracts on every short list of papers and every small n
InitSample ==
    /\ pipeline_type = "none"
    /\ sse_last = NoMsg
    /\ ddIdle
    /\ GAP_FINDER_AVAILABLE = TRUE
    /\ gfIdle
    /\ dpIdle
    /\ agIdle
    /\ rjIdle
    /\ stIdle
    /\ fbIdle
    /\ sa_pc = "call"
    /\ sa_papers \in SampleInputs
    /\ sa_n \in 0..MaxSample
    /\ sa_result = <<>>

SpecSample == InitSample /\ [][SampleNext]_vars

\* ========================================================================
\* Observations of a run
\* ========================================================================
\* the agents of the events of one phase, in the order yielded
PhaseAgents(phase) ==
    LET es == SelectSeq(events, LAMBDA e : e.type = "agent_event" /\ e.phase = phase)
    IN [i \in 1..Len(es) |-> es[i].agent]

\* the number of pipeline_complete events yielded
PipelineCompleteCount ==
    Len(SelectSeq(events, LAMBDA e : e.type = "pipeline_complete"))

\* the HTTP event stream has ended
StreamEnded ==
    \/ dd_pc \in {"done", "raised"}
    \/ gf_pc \in {"done", "raised", "closed"}

\* the exact mean of the four scores (0.5 for an unset one) is at least 0.50
MeanAtLeastHalf(st) ==
    OrHalf(st.evidence_score) + OrHalf(st.druggability_score)
        + OrHalf(st.novelty_score) + OrHalf(st.feasibility_score) >= 200

\* two papers share an identifier or a normalized title
SameKey(p, q) ==
    \/ p.pmid # None /\ p.pmid = q.pmid
    \/ /\ p.title # NoTitle /\ q.title # NoTitle
       /\ NormTitle(p.title) # <<>>
       /\ NormTitle(p.title) = NormTitle(q.title)

\* ========================================================================
\* Claims
\* ========================================================================

\* C1: loops_used never exceeds max_loops, and a controller output stating
\* LOOP at loops_used = max_loops ends the run instead of moving back to an
\* earlier stage.
C1_LoopBudget ==
    [][/\ state'.loops_used <= max_loops'
       /\ (dd_pc = "route" /\ state.loops_used = max_loops
              /\ ParsedDecision(full_output) = "LOOP")
            => (dd_pc' = "done" /\ agent_idx' = agent_idx
                  /\ state'.loops_used = state.loops_used)]_vars

\* C1 witness: a run with a positive budget that used it up and ended on a
\* controller output stating LOOP.
C1_Witness ==
    /\ dd_pc = "done"
    /\ max_loops > 0
    /\ state.loops_used = max_loops
    /\ ParsedDecision(full_output) = "LOOP"

\* C2: a stated LOOP with the budget exhausted ends the run with GO when the
\* mean of the four scores is at least 0.50 and with NO_GO otherwise.
C2_ForcedDecisionByMean ==
    (dd_pc = "done" /\ ParsedDecision(full_output) = "LOOP"
        /\ state.loops_used >= max_loops)
      => sse_last = Msg("pipeline_complete", "", "",
                        IF MeanAtLeastHalf(state) THEN "GO" ELSE "NO_GO")

\* C3: while no LLM stream raises, the drug-discovery run reaches
\* pipeline_complete and stops, and the controller stage never executes more
\* than max_loops + 1 times.
C3_Terminates ==
    /\ [](controller_runs <= max_loops + 1)
    /\ (pipeline_type = "drug_discovery")
          => <>(dd_pc = "raised"
                  \/ (dd_pc = "done" /\ sse_last.type = "pipeline_complete"))

\* C3 witness: the controller stated LOOP every time the budget allowed and
\* the run ended after max_loops + 1 controller executions.
C3_Witness ==
    /\ dd_pc = "done"
    /\ max_loops >= 1
    /\ controller_runs = max_loops + 1
    /\ sse_last.type = "pipeline_complete"

\* C4: when the event stream of a pipeline invocation has ended, its last
\* event is pipeline_complete or a pipeline-level error.
C4_StreamEndsWithTerminalEvent ==
    StreamEnded => sse_last.type \in {"pipeline_complete", "error"}

C6_FiveStagesOnce ==
    gf_pc \in {"done", "raised"}
      => /\ PhaseAgents("thinking") = RESEARCH_GAP_SEQUENCE
         /\ PhaseAgents("complete") = RESEARCH_GAP_SEQUENCE

\* C7: once AGGREGATE has run on zero papers, the statistics have
\* total_papers = 0, empty distributions and no sparse combinations.
C7_EmptyAggregate ==
    (current_state.current_node = "aggregator" /\ current_state.paper_count = 0)
      => /\ {"total_papers", "distributions", "sparse_combinations"}
                \subseteq DOMAIN current_state.statistics
         /\ current_state.statistics.total_papers = 0
         /\ \A dim \in DOMAIN current_state.statistics.distributions :
                DOMAIN current_state.statistics.distributions[dim] = {}
         /\ current_state.statistics.sparse_combinations = <<>>

\* C8: the input built for the re-run of a loop target carries a refinement
\* note that the stage's first-pass input did not carry.
C8_LoopTargetGetsFeedback ==
    (dd_pc = "stream" /\ loop_to = CurrentAgent)
      => (user_input.note /\ ~first_input[CurrentAgent].note)

\* C9: deduplicate_papers, given two papers that have neither identifier nor
\* title, returns normally and keeps both.
C9_KeepsUnkeyedPapers ==
    (/\ Len(papers) = 2
     /\ \A i \in 1..2 : papers[i].pmid = None /\ papers[i].title = NoTitle
     /\ dp_pc \in {"returned", "raised"})
      => (dp_pc = "returned" /\ unique_papers = papers)

\* C10: deduplicate_papers returns a subsequence of its input in the original
\* order, and drops a paper exactly when an earlier paper of the input,
\* kept or dropped, has the same identifier or the same normalized title.
C10_DropsExactlyRepeats ==
    dp_pc = "returned"
      => /\ \A k \in 1..(Len(kept) - 1) : kept[k] < kept[k + 1]
         /\ unique_papers = [k \in 1..Len(kept) |-> papers[kept[k]]]
         /\ \A i \in 1..Len(papers) :
                (i \notin Range(kept))
                   <=> (\E j \in 1..(i - 1) : SameKey(papers[j], papers[i]))

\* C11: deduplication is idempotent on papers with string titles: applying
\* deduplicate_papers to its own result returns that result unchanged.
C11_DedupIdempotent ==
    (dp_pc = "returned" /\ \A i \in 1..Len(papers) : papers[i].title # NoTitle)
      => /\ unique_papers = deduplicate_papers(papers).unique_papers
         /\ ~deduplicate_papers(unique_papers).raised
         /\ deduplicate_papers(unique_papers).unique_papers = unique_papers

\* C11 witness: a returned list of two papers from which a repeat was dropped.
C11_Witness ==
    /\ dp_pc = "returned"
    /\ \A i \in 1..Len(papers) : papers[i].title # NoTitle
    /\ Len(unique_papers) = 2
    /\ Len(papers) = 3

\* C12: every pair of an active population and an active intervention whose
\* co-occurrence count is below the threshold 3 is listed in
\* sparse_combinations with that count.
C12_SparsePairsListed ==
    ag_pc = "returned"
      => \A c1 \in Range(ActiveCategories(ag_papers, "population")),
            c2 \in Range(ActiveCategories(ag_papers, "intervention")) :
            Cooccurrence(ag_papers, c1, c2) < SPARSE_THRESHOLD
              => \E k \in 1..Len(summary.sparse_combinations) :
                    summary.sparse_combinations[k] =
                        [dimension1 |-> c1, dimension2 |-> c2,
                         count |-> Cooccurrence(ag_papers, c1, c2)]

\* the position of a listed pair in the discovery (nested-loop) order
DiscoveryIndex(cell) ==
    CHOOSE k \in 1..Len(AllCells(ag_papers)) :
        /\ AllCells(ag_papers)[k].dimension1 = cell.dimension1
        /\ AllCells(ag_papers)[k].dimension2 = cell.dimension2

\* C13: sparse_combinations is non-decreasing in count, entries of equal
\* count stand in their discovery order, and calling the function again on the
\* same papers returns the same list.
C13_SparseOrdering ==
    ag_pc = "returned"
      => /\ \A i, j \in 1..Len(summary.sparse_combinations) :
                i < j =>
                  /\ summary.sparse_combinations[i].count
                        <= summary.sparse_combinations[j].count
                  /\ summary.sparse_combinations[i].count
                        = summary.sparse_combinations[j].count
                      => DiscoveryIndex(summary.sparse_combinations[i])
                            < DiscoveryIndex(summary.sparse_combinations[j])
         /\ generate_statistics_summary(ag_papers).sparse_combinations
                = summary.sparse_combinations

\* C13 witness: a returned list in which a pair discovered later precedes a
\* pair of larger count, and two pairs tie.
C13_Witness ==
    /\ ag_pc = "returned"
    /\ \E i, j \in 1..Len(summary.sparse_combinations) :
          /\ i < j
          /\ summary.sparse_combinations[i].count < summary.sparse_combinations[j].count
          /\ DiscoveryIndex(summary.sparse_combinations[i])
                > DiscoveryIndex(summary.sparse_combinations[j])
    /\ \E i, j \in 1..Len(summary.sparse_combinations) :
          i # j /\ summary.sparse_combinations[i].count
                      = summary.sparse_combinations[j].count

\* C14: every category count of every dimension is at most total_papers, and
\* for total_papers > 0 its percentage is count / total_papers * 100 rounded
\* to one decimal (the nearest tenth).
C14_CountsAndPercentages ==
    ag_pc = "returned"
      => \A dim \in DOMAIN summary.distributions :
            \A cat \in DOMAIN summary.distributions[dim] :
                LET e == summary.distributions[dim][cat]
                    total == summary.total_papers
                IN /\ e.count <= total
                   /\ total > 0 =>
                        /\ 2 * (e.percentage * total - e.count * 1000) <= total
                        /\ 2 * (e.count * 1000 - e.percentage * total) <= total

\* C14 witness: a paper whose terms name one category twice, in a corpus
\* where that category's share is not a whole percentage.
C14_Witness ==
    /\ ag_pc = "returned"
    /\ summary.total_papers = 3
    /\ \E i \in 1..Len(ag_papers) :
          {"Aged", "Aged, 80 and over"} \subseteq Range(ag_papers[i].mesh_terms)
    /\ "elderly" \in DOMAIN summary.distributions.population
    /\ summary.distributions.population["elderly"].percentage = 667

\* C15: generate_statistics_summary of the empty list returns total_papers 0
\* with every distribution, every understudied list, sparse_combinations and
\* sample_abstracts empty.
C15_EmptySummary ==
    (ag_pc = "returned" /\ ag_papers = <<>>)
      => /\ summary.total_papers = 0
         /\ \A dim \in DOMAIN summary.distributions :
                DOMAIN summary.distributions[dim] = {}
         /\ DOMAIN summary.distributions = Dimensions
         /\ \A u \in DOMAIN summary.understudied : summary.understudied[u] = <<>>
         /\ summary.sparse_combinations = <<>>
         /\ summary.sample_abstracts = <<>>
         /\ summary.temporal_trends.trend = "insufficient_data"

\* C15 witness: the call on the empty list has returned.
C15_Witness ==
    /\ ag_pc = "returned"
    /\ ag_papers = <<>>
    /\ DOMAIN summary.understudied = {"populations", "interventions", "outcomes"}

\* C16: each of the four scores of the state is unset or lies in [0.0, 1.0],
\* and parse_score returns a value in [0.0, 1.0] for the text of every stage.
C16_ScoresInRange ==
    /\ \A f \in {"evidence_score", "druggability_score", "novelty_score",
                 "feasibility_score"} :
          state[f] = NoScore \/ (0 <= state[f] /\ state[f] <= 100)
    /\ 0 <= parse_score(full_output) /\ parse_score(full_output) <= 100

\* C16 witness: a labelled score of 1.5 was stored as 1.0, and a stage whose
\* only number near the key is 2.5 got the default 0.55.
C16_Witness ==
    /\ state.druggability.direct = 150
    /\ state.druggability_score = 100
    /\ state.preclinical.near = 250
    /\ state.feasibility_score = 55
\* ---- C17 ----
\* C17: for a text that holds a well-formed JSON object inside a fenced block,
\* tagged json or untagged, with any prose before and after the block,
\* repair_json_response returns an object equal to the original one.
C17_FencedObjectRecovered ==
    rj_pc = "returned" =>
        \A b \in ProseBefore, a \in ProseAfter, kind \in {"tagged", "untagged"},
           body \in Objects :
            raw_response = b \o Wrap(kind, body) \o a =>
                /\ ~rj_result.is_none
                /\ rj_result.obj = json_loads(body).value

\* ---- C18 ----
\* C18: for a text that is a JSON object made invalid only by trailing commas
\* before closing braces or brackets, the direct parse fails, the parse after
\* the trailing-comma removal succeeds, and the result is the object the text
\* denotes without those commas.
C18_TrailingCommasRepaired ==
    rj_pc = "returned" =>
        \A c \in TrailingCommaCases :
            raw_response = c.text =>
                /\ ~json_loads(c.text).ok
                /\ json_loads(c.clean).ok
                /\ ~rj_result.is_none
                /\ rj_result.stage = "trailing_commas"
                /\ rj_result.obj = json_loads(c.clean).value

\* ---- C19 ----
\* C19: repair_json_response returns none for every text that has no "{" and
\* for every text in which no "}" follows the first "{".
NoObjectSpan(text) ==
    \/ IndexOf(text, <<"{">>) = 0
    \/ \A i \in 1..Len(text) : i > IndexOf(text, <<"{">>) => text[i] # "}"

C19_NoBracesGivesNone ==
    (rj_pc = "returned" /\ NoObjectSpan(raw_response)) => rj_result.is_none

\* a text with a string field of step 5 and braces, but no "}" after its
\* first "{", has returned
C19_Witness ==
    /\ rj_pc = "returned"
    /\ NoObjectSpan(raw_response)
    /\ IndexOf(raw_response, <<"{">>) # 0
    /\ IndexOf(raw_response, <<"}">>) # 0
    /\ ExtractFields(raw_response) # <<>>
    /\ rj_result.is_none

\* ---- C20 ----
\* C20: the pico of every record that parse_pubmed_xml emits is the category
\* mapping of the record's subject terms together with its publication
\* types, and no later step (deduplication, enrichment, aggregation, the
\* analysis stages) changes the pico of a record of the run.
PicoOf(ps) == [i \in 1..Len(ps) |-> ps[i].pico]

C20_PicoDerived ==
    /\ [](\A i \in 1..Len(current_state.raw_papers) :
            LET paper == current_state.raw_papers[i]
            IN /\ paper.pico = map_mesh_terms(paper.mesh_terms \o paper.publication_types)
               /\ \E fetched \in FetchedArticleLists : \E k \in 1..Len(fetched) :
                    /\ fetched[k].pmid = paper.pmid
                    /\ paper.mesh_terms = parse_pubmed_xml(fetched)[k].mesh_terms
                    /\ paper.pico = map_mesh_terms(fetched[k].descriptors
                                                   \o fetched[k].publication_types))
    /\ [][current_state.raw_papers # <<>> =>
            PicoOf(current_state'.raw_papers) = PicoOf(current_state.raw_papers)]_vars

\* the statistics of a deduplicated and enriched list are stored, and the
\* list has a record whose publication type adds a category to its pico
C20_Witness ==
    /\ Usable(current_state.statistics)
    /\ \E i \in 1..Len(current_state.raw_papers) :
        LET paper == current_state.raw_papers[i]
        IN /\ paper.citations # None
           /\ "rct" \in Range(paper.pico["study_type"])
           /\ "Randomized Controlled Trial" \in Range(paper.publication_types)

\* ---- C21 ----
\* C21: the events of a stage execution are one thinking event, then progress
\* or output events, then one complete event that is the stage's last event:
\* no event of a stage follows the stage's complete event.  (In the gap
\* finder each stage executes once, so every event that carries a stage's
\* name belongs to its one execution.)
C21_CompleteIsLastStageEvent ==
    \A i \in 1..Len(events) : \A j \in 1..Len(events) :
        (/\ i < j
         /\ events[i].type = "agent_event"
         /\ events[i].phase = "complete")
        => events[j].agent # events[i].agent

\* ---- C22 ----
\* C22: the output events of a stage carry the non-empty chunks of the LLM
\* stream in exactly the order received, none dropped, duplicated or
\* reordered, and the full_output of the stage's complete event, which is the
\* text committed to the state, is their concatenation.
RECURSIVE Concat(_)
Concat(ss) == IF ss = <<>> THEN <<>> ELSE Head(ss) \o Concat(Tail(ss))

OutputContents ==
    LET outs == SelectSeq(st_events, LAMBDA e : e.phase = "output")
    IN [k \in 1..Len(outs) |-> outs[k].content]

C22_ChunksInOrder ==
    /\ OutputContents = SelectSeq(SubSeq(llm_chunks, 1, st_i), LAMBDA c : c # <<>>)
    /\ st_pc = "done" =>
        /\ st_i = Len(llm_chunks)
        /\ Last(st_events) = StageEvent("complete", Concat(OutputContents))
        /\ st_hypothesis = Concat(OutputContents)

\* a stage has completed on a stream with an empty chunk between two
\* different non-empty chunks
C22_Witness ==
    /\ st_pc = "done"
    /\ Len(llm_chunks) = 3
    /\ llm_chunks[1] # <<>> /\ llm_chunks[2] = <<>> /\ llm_chunks[3] # <<>>
    /\ llm_chunks[1] # llm_chunks[3]
    /\ Len(OutputContents) = 2

\* ---- C23 ----
\* C23: loops_used starts at 0, increases by exactly 1 at each loop
\* transition (the step that emits the loop event and goes back to the
\* target stage), and no other step of the run changes it; it never
\* decreases.
LoopTransition == dd_pc = "route" /\ dd_pc' = "thinking"

C23_LoopsUsedCountsLoops ==
    /\ state.loops_used = 0
    /\ [][IF LoopTransition
          THEN state'.loops_used = state.loops_used + 1
          ELSE state'.loops_used = state.loops_used]_vars

\* a run has ended after two loop transitions
C23_Witness ==
    /\ dd_pc = "done"
    /\ state.loops_used = 2
    /\ iteration_num = 3

\* ---- C24 ----
\* C24: the target of every loop transition is target_hypothesis,
\* literature_evidence or preclinical_design, resolved by priority from the
\* keywords of the stated target: hypothesis/target, else
\* evidence/literature, else preclinical/design/feasibility, else
\* druggability or novelty (target_hypothesis), and target_hypothesis when
\* no keyword matches or no target is given.
PriorityTarget(has_target, keywords) ==
    IF ~has_target \/ keywords = {} THEN "target_hypothesis"
    ELSE IF "hypothesis" \in keywords \/ "target" \in keywords THEN "target_hypothesis"
    ELSE IF "evidence" \in keywords \/ "literature" \in keywords THEN "literature_evidence"
    ELSE IF keywords \cap {"preclinical", "design", "feasibility"} # {}
    THEN "preclinical_design"
    ELSE "target_hypothesis"

C24_LoopTargetByPriority ==
    [][LoopTransition =>
        /\ loop_to' = PriorityTarget(full_output.has_target, full_output.target)
        /\ loop_to' \in {"target_hypothesis", "literature_evidence", "preclinical_design"}
        /\ agent_idx' = SeqIndex(loop_to')
        /\ DRUG_DISCOVERY_SEQUENCE[agent_idx' + 1] = loop_to']_vars

\* a loop has gone back to target_hypothesis on a stated target that names
\* both evidence and target
C24_Witness ==
    /\ dd_pc = "thinking"
    /\ state.loops_used > 0
    /\ loop_to = "target_hypothesis"
    /\ agent_idx = 0
    /\ full_output.decision = <<"LOOP">>
    /\ full_output.target = {"evidence", "target"}

\* ---- C25 ----
\* the decision a word after a "DECISION:" marker names
Names(word, decision) ==
    \/ word = "GO" /\ decision = "GO"
    \/ word \in {"NO_GO", "NO-GO"} /\ decision = "NO_GO"
    \/ word = "LOOP" /\ decision = "LOOP"

\* C25 as stated: parse_controller_decision returns GO for a controller text
\* without decision marker, and otherwise the decision named by the first
\* "DECISION:" marker (NO_GO and NO-GO: NO_GO, LOOP: LOOP).
C25_FirstMarkerDecides ==
    dd_pc = "route" =>
        IF full_output.decision = <<>>
        THEN parse_controller_decision(full_output).decision = "GO"
        ELSE Names(full_output.decision[1], parse_controller_decision(full_output).decision)

\* C25 as amended: parse_controller_decision returns the decision named by
\* the first "DECISION:" marker that is followed by GO, NO_GO, NO-GO or LOOP,
\* and GO when the text has no such marker.
C25_FirstMatchingMarkerDecides ==
    dd_pc = "route" =>
        LET words == full_output.decision
            named == {i \in 1..Len(words) : \E d \in {"GO", "NO_GO", "LOOP"} : Names(words[i], d)}
            decision == parse_controller_decision(full_output).decision
        IN IF named = {}
           THEN decision = "GO"
           ELSE \E i \in named :
                    /\ \A j \in named : i <= j
                    /\ Names(words[i], decision)

\* the controller has completed on a text whose first marker names no
\* decision and whose second marker names LOOP
C25_Witness ==
    /\ dd_pc = "route"
    /\ full_output.decision = <<"MAYBE", "LOOP">>
    /\ parse_controller_decision(full_output).decision = "LOOP"

\* ---- C26 ----
\* the text field and the score field that each scoring stage writes
ScoredFields ==
    {<<"evidence", "evidence_score">>, <<"druggability", "druggability_score">>,
     <<"novelty", "novelty_score">>, <<"preclinical", "feasibility_score">>}

C27_ExtractedValueClamped ==
    \A f \in ScoredFields :
        LET text == state[f[1]]
            score == state[f[2]]
            v == IF text.direct # NoMatch THEN text.direct
                 ELSE IF text.overall # NoMatch THEN text.overall
                 ELSE text.near
        IN (score # NoScore /\ v # NoMatch) =>
                score = (IF v > 100 THEN 100 ELSE IF v < 0 THEN 0 ELSE v)

\* ---- C28 ----
\* the text and score fields of the state, and those a stage owns
ContentFields ==
    {"hypothesis", "evidence", "evidence_score", "druggability", "druggability_score",
     "novelty", "novelty_score", "preclinical", "feasibility_score"}

OwnFields(agent_id) ==
    CASE agent_id = "target_hypothesis" -> {"hypothesis"}
      [] agent_id = "literature_evidence" -> {"evidence", "evidence_score"}
      [] agent_id = "druggability" -> {"druggability", "druggability_score"}
      [] agent_id = "novelty" -> {"novelty", "novelty_score"}
      [] agent_id = "preclinical_design" -> {"preclinical", "feasibility_score"}
      [] OTHER -> {}

\* C28: a stage execution writes only its own text field and its own score,
\* each once, in the one update step between the end of its stream and its
\* complete event; every other step, and every other field in that step,
\* leaves the text and score fields as they were, so the fields of stages
\* that are not replayed after a loop keep their values.
C28_StageWritesOwnFields ==
    [][/\ \A k \in ContentFields :
            state'[k] # state[k] => (dd_pc = "update" /\ k \in OwnFields(CurrentAgent))
       /\ (dd_pc = "update" /\ dd_pc' # "update") =>
            \A k \in OwnFields(CurrentAgent) :
                IF k \in {f[2] : f \in ScoredFields}
                THEN state'[k] = parse_score(full_output)
                ELSE state'[k] = full_output]_vars

\* after a loop the replayed stages have written again: the controller is
\* about to run a second time and the state holds the scores of the stages
\* that ran
C28_Witness ==
    /\ dd_pc = "thinking"
    /\ CurrentAgent = "controller"
    /\ controller_runs = 1
    /\ state.loops_used = 1
    /\ state.preclinical = full_output
    /\ state.feasibility_score = parse_score(full_output)
    /\ state.evidence_score # NoScore

\* C29: when the search of one query of a batch fails, that query contributes
\* nothing, the remaining queries are still searched, and the fetch proceeds
\* with the identifiers the other queries found.
C29_FailedQueryContributesNothing ==
    (fb_pc = "returned" /\ "failed" \in Range(searched)) =>
        /\ Len(searched) = n_queries
        /\ all_pmids # {} =>
                /\ pmid_list \in PmidLists(all_pmids)
                /\ "efetch" \in Range(fb_calls)

\* the payload of a batch parses as it is
WellFormed(payload) == fromstring(payload).ok

\* the payload of a batch parses neither as it is nor trimmed
Unparsable(payload) ==
    ~fromstring(payload).ok /\ ~fromstring(Trimmed(payload)).ok

\* C30: when the payload of one batch of a fetch cannot be parsed even after
\* the trim-and-retry recovery and the other batches are well formed, parsing
\* returns exactly the records of the other batches.
C30_MalformedBatchAloneIsEmpty ==
    ( /\ fb_pc = "returned" /\ fb_result.error = None /\ xml_parts # <<>>
      /\ Cardinality({k \in 1..Len(xml_parts) : Unparsable(xml_parts[k])}) = 1
      /\ \A k \in 1..Len(xml_parts) :
            WellFormed(xml_parts[k]) \/ Unparsable(xml_parts[k]) ) =>
        fb_result.raw_papers =
            Concat([k \in 1..Len(xml_parts) |-> fromstring(xml_parts[k]).articles])

\* the running node has finished its body on a response for which
\* repair_json_response returned None
RepairGaveNone ==
    /\ gf_pc = "format"
    /\ full_response # NoResponse
    /\ ParsedResponse(full_response).is_none

\* the raw text wrapped with the error flag
Wrapped(raw_key) ==
    [k \in {raw_key, "parse_error"} |-> IF k = raw_key THEN "raw text" ELSE "True"]

\* C31: when repair_json_response returns None for the response of a stage,
\* the stage does not raise: ANALYZE and SYNTHESIZE store the raw text wrapped
\* with parse_error, PLAN falls back to substitute queries, and the pipeline
\* goes on to the next stage (or to pipeline_complete after the last one).
C31_UnparsedResponseIsContained ==
    [][RepairGaveNone =>
        /\ CurrentNode \notin failures
        /\ current_state.error = None
        /\ CurrentNode = "query_planner" =>
                current_state.search_queries \in
                    {<<"x AND y">>, <<"user_query", "user_query[Title/Abstract]">>}
        /\ CurrentNode = "literature_analyzer" =>
                current_state.analysis = Wrapped("raw_analysis")
        /\ CurrentNode = "gap_synthesizer" =>
                current_state.gaps = Wrapped("raw_synthesis")
        /\ events' = Append(events, Event("agent_event", CurrentNode, "complete"))
        /\ IF node_idx < Len(RESEARCH_GAP_SEQUENCE)
           THEN gf_pc' = "thinking" /\ node_idx' = node_idx + 1
           ELSE gf_pc' = "final"]_vars

C31_Witness ==
    /\ RepairGaveNone
    /\ CurrentNode = "gap_synthesizer"
    /\ current_state.analysis = Wrapped("raw_analysis")
    /\ current_state.search_queries = <<"user_query", "user_query[Title/Abstract]">>

\* C32: within search_multiple_queries and within fetch_in_batches, a sleep
\* lies between every two successive calls of the same endpoint, every sleep
\* is followed by the next call of that endpoint, and no sleep follows the
\* last call of the operation.
C32_DelayBetweenCalls ==
    /\ \A k \in 1..(Len(fb_calls) - 1) :
            fb_calls[k] # "sleep" /\ fb_calls[k + 1] # "sleep" =>
                fb_calls[k] = "esearch" /\ fb_calls[k + 1] = "efetch"
    /\ \A k \in 1..Len(fb_calls) :
            fb_calls[k] = "sleep" =>
                /\ k > 1 /\ fb_calls[k - 1] # "sleep"
                /\ IF k < Len(fb_calls)
                   THEN fb_calls[k + 1] = fb_calls[k - 1]
                   ELSE fb_pc = (IF fb_calls[k - 1] = "esearch" THEN "search" ELSE "fetch")
    /\ Len(SelectSeq(fb_calls, LAMBDA c : c = "efetch")) > 0 =>
            Len(SelectSeq(fb_calls, LAMBDA c : c = "esearch")) = n_queries

C32_Witness ==
    /\ fb_pc = "returned"
    /\ fb_result.error = None
    /\ fb_calls = <<"esearch", "sleep", "esearch", "efetch", "sleep", "efetch">>

\* C33: sample_abstracts(papers, n) returns all papers with an abstract when
\* they are at most n, and otherwise exactly n papers, each with an abstract
\* and none repeated, whatever the random draws.
C33_SampleHasExactlyN ==
    sa_pc = "returned" =>
        IF Cardinality(WithAbstracts(sa_papers)) <= sa_n
        THEN /\ Range(sa_result) = WithAbstracts(sa_papers)
             /\ Len(sa_result) = Cardinality(WithAbstracts(sa_papers))
        ELSE /\ Len(sa_result) = sa_n
             /\ Range(sa_result) \subseteq WithAbstracts(sa_papers)
             /\ \A i, j \in 1..Len(sa_result) : i # j => sa_result[i] # sa_result[j]

\* C34: the decision carried by the pipeline_complete event of a
\* drug-discovery run is GO or NO_GO, never LOOP.
C34_FinalDecisionIsGoOrNoGo ==
    (dd_pc = "done" /\ sse_last.type = "pipeline_complete") =>
        sse_last.decision \in {"GO", "NO_GO"}

C34_Witness ==
    /\ dd_pc = "done"
    /\ sse_last.type = "pipeline_complete"
    /\ parse_controller_decision(full_output).decision = "LOOP"
    /\ max_loops > 0
    /\ state.loops_used = max_loops

\* the controller output states no decision, or states GO or NO_GO first
StatesNoLoop(text) ==
    text.decision = <<>> \/ Head(text.decision) \in {"GO", "NO_GO", "NO-GO"}

\* the decision such an output states (GO when it states none)
StatedDecision(text) ==
    IF text.decision = <<>> \/ Head(text.decision) = "GO" THEN "GO" ELSE "NO_GO"

\* C35: when the controller output states GO or NO_GO or no decision, the run
\* ends at that controller execution with that decision (GO when absent),
\* whatever the scores and the remaining budget; the mean-score threshold
\* decides only for a LOOP whose budget is exhausted.
C35_StatedDecisionEndsRun ==
    [][dd_pc = "route" =>
        /\ StatesNoLoop(full_output) =>
                /\ dd_pc' = "done"
                /\ sse_last' = Msg("pipeline_complete", "", "", StatedDecision(full_output))
                /\ state' = state
        /\ (dd_pc' = "done"
                /\ sse_last'.decision # parse_controller_decision(full_output).decision) =>
                /\ parse_controller_decision(full_output).decision = "LOOP"
                /\ max_loops - state.loops_used <= 0
                /\ sse_last'.decision = ForcedDecision(state)]_vars

C35_Witness ==
    /\ dd_pc = "done"
    /\ full_output.decision # <<>>
    /\ Head(full_output.decision) = "GO"
    /\ ForcedDecision(state) = "NO_GO"
    /\ state.loops_used = max_loops
    /\ sse_last = Msg("pipeline_complete", "", "", "GO")

\* the controller stage is about to execute or is executing
ControllerExecutes ==
    /\ dd_pc \in {"thinking", "stream", "update", "route"}
    /\ CurrentAgent = "controller"

\* C36: whenever the controller stage executes, in the first pass and after
\* any loop, all four scores are set, so that 0.5 is never substituted for an
\* unset score, neither in the controller's prompt nor in the forced decision.
C36_ScoresSetAtController ==
    ControllerExecutes =>
        \A f \in {"evidence_score", "druggability_score", "novelty_score",
                  "feasibility_score"} :
            state[f] # NoScore /\ OrHalf(state[f]) = state[f]

C36_Witness ==
    /\ ControllerExecutes
    /\ dd_pc = "route"
    /\ state.loops_used > 0
    /\ state.evidence = EmptyText
    /\ state.evidence_score = 55

\* the stages that completed while the iteration counter was k, in order
CompletedIn(k) ==
    LET es == SelectSeq(dd_events, LAMBDA e : e.type = "agent" /\ e.phase = "complete"
                                                /\ e.iteration = k)
    IN [i \in 1..Len(es) |-> es[i].agent]

\* the target of the loop transition that opened iteration k
LoopTargetOf(k) ==
    LET es == SelectSeq(dd_events, LAMBDA e : e.type = "loop" /\ e.iteration = k)
    IN es[1].agent

\* the target stage and every stage after it, in sequence order
FromTarget(target) ==
    LET first == CHOOSE i \in 1..Len(DRUG_DISCOVERY_SEQUENCE) :
                    DRUG_DISCOVERY_SEQUENCE[i] = target
    IN SubSeq(DRUG_DISCOVERY_SEQUENCE, first, Len(DRUG_DISCOVERY_SEQUENCE))

\* C37: after a loop transition to stage T, the stages executed before the
\* next controller decision are exactly T and the stages after T in
\* DRUG_DISCOVERY_SEQUENCE, in that order and once each.
C37_LoopRerunsFromTarget ==
    \A k \in 2..iteration_num :
        /\ Len(CompletedIn(k)) <= Len(FromTarget(LoopTargetOf(k)))
        /\ CompletedIn(k) = SubSeq(FromTarget(LoopTargetOf(k)), 1, Len(CompletedIn(k)))
        /\ (k < iteration_num \/ dd_pc \in {"route", "done"}) =>
                CompletedIn(k) = FromTarget(LoopTargetOf(k))

C37_Witness ==
    /\ dd_pc = "route"
    /\ iteration_num = 3
    /\ CompletedIn(2) = <<"preclinical_design", "controller">>
    /\ CompletedIn(3) = <<"literature_evidence", "druggability", "novelty",
                          "preclinical_design", "controller">>

\* FETCH has finished and yielded no paper
FetchedNothing == node_idx > 2 /\ current_state.raw_papers = <<>>

\* C38: when FETCH yields zero papers, neither ANALYZE nor SYNTHESIZE invokes
\* the LLM, the analysis and the gaps are each set to an error marker, and the
\* pipeline_complete event reports total_papers = 0 with that marker as gaps.
C38_NoPapersNoLLM ==
    FetchedNothing =>
        /\ failures \cap {"literature_analyzer", "gap_synthesizer"} = {}
        /\ (node_idx > 3 /\ gf_pc # "thinking") => full_response = NoResponse
        /\ (node_idx > 4 \/ (node_idx = 4 /\ gf_pc = "format")) =>
                current_state.analysis = [error |-> "No statistics to analyze"]
        /\ (node_idx = 5 /\ gf_pc \in {"format", "final", "done"}) =>
                current_state.gaps = [error |-> "No analysis to synthesize"]
        /\ gf_pc = "done" =>
                /\ Last(events).type = "pipeline_complete"
                /\ PipelineResult(current_state).statistics.total_papers = 0
                /\ PipelineResult(current_state).gaps =
                        [error |-> "No analysis to synthesize"]

C38_Witness ==
    /\ FetchedNothing
    /\ gf_pc = "done"
    /\ failures = {}
    /\ current_state.search_queries = <<"q1", "q2">>

\* the number of messages with phase "complete" that the research_gap stream
\* has carried for the stage agent
CompleteMessages(agent) ==
    Len(SelectSeq(SSEOf(events),
                  LAMBDA m : m.type = "agent" /\ m.agent = agent /\ m.phase = "complete"))

\* C39: in the research_gap stream every one of the five stages produces
\* exactly one message with phase "complete" per run, also when the stage's
\* LLM call raised: never more than one so far, and one each once the run has
\* reached its pipeline_complete.
C39_OneCompleteMessagePerStage ==
    /\ \A agent \in Range(RESEARCH_GAP_SEQUENCE) : CompleteMessages(agent) <= 1
    /\ gf_pc = "done" =>
            \A agent \in Range(RESEARCH_GAP_SEQUENCE) : CompleteMessages(agent) = 1

\* the positions in the drug-discovery stream at which an iteration starts
IterationStarts ==
    {i \in 1..Len(dd_events) : dd_events[i].type = "iteration_start"}

\* the iteration_start, iteration_end and pipeline_complete events of the
\* stream, in order
IterationMarks ==
    SelectSeq(dd_events, LAMBDA e : e.type \in {"iteration_start", "iteration_end",
                                                "pipeline_complete"})

\* the iteration_start events and the stage events of the stream, in order
StartsAndStages ==
    SelectSeq(dd_events, LAMBDA e : e.type \in {"iteration_start", "agent"})

\* C40: throughout a drug-discovery run the iteration counter equals
\* loops_used + 1; iteration_start k precedes every stage event of iteration
\* k (every stage event carries the iteration of the event before it among
\* the starts and stage events, and the first of these is a start); each
\* iteration_start k is followed by exactly one iteration_end, of iteration
\* k, before the next iteration_start or pipeline_complete (a start that is
\* not the last mark is followed by the iteration_end of k and then by
\* iteration_start k + 1 or pipeline_complete); and pipeline_complete reports
\* iterations = loops_used + 1.
C40_IterationCounter ==
    LET marks == IterationMarks
        stages == StartsAndStages
    IN /\ iteration_num = state.loops_used + 1
       /\ \A i \in 1..Len(stages) :
             stages[i].type = "agent" =>
                /\ i > 1
                /\ stages[i - 1].iteration = stages[i].iteration
       /\ \A i \in 1..Len(marks) :
             /\ marks[i].type = "iteration_end" =>
                   i > 1 /\ marks[i - 1].type = "iteration_start"
             /\ (marks[i].type = "iteration_start" /\ i < Len(marks)) =>
                   /\ marks[i + 1] = DDEvent("iteration_end", "", "", marks[i].iteration)
                   /\ i + 2 <= Len(marks)
                   /\ marks[i + 2].type \in {"iteration_start", "pipeline_complete"}
                   /\ marks[i + 2].type = "iteration_start" =>
                         marks[i + 2].iteration = marks[i].iteration + 1
             /\ marks[i].type = "pipeline_complete" =>
                   marks[i].iteration = state.loops_used + 1

C40_Witness ==
    /\ dd_pc = "done"
    /\ state.loops_used = 2
    /\ Cardinality(IterationStarts) = 3
    /\ Last(dd_events) = DDEvent("pipeline_complete", "", "", 3)

====
